---- MODULE Spec2Model ----
(***************************************************************************)
(* A model of the concurrent data-aggregation pipeline of                  *)
(* src/api/scraper_multi_v3.py: the per-exchange scraper loop with its     *)
(* single-instance lock and its artifact writes, the analysis worker pool  *)
(* with retry, the funding-rate cache, the two-exchange merge and the      *)
(* table filters.                                                          *)
(*                                                                         *)
(* Column names of the analysis table are record fields:                   *)
(*   "1m 1x Volume (USDT)" -> v1m      "5m 1x Volume (USDT)" -> v5m        *)
(*   "30m 1x Volume (USDT)" -> v30m    "1h 1x Volume (USDT)" -> v1h        *)
(*   "5m Spread" -> spread5m           the others keep their names.        *)
(* A DataFrame is a sequence of rows; every row carries its pandas index   *)
(* label in the field "index".                                             *)
(***************************************************************************)
EXTENDS Integers, Sequences, FiniteSets, TLC

VARIABLES
    \* ---- run_scraper_for_exchange, one loop per exchange ----
    pc,          \* [exchange -> [at, i]]: position of the loop
    alive,       \* [exchange -> BOOLEAN]: FALSE once the process was stopped
    iter,        \* [exchange -> Nat]: iterations begun so far
    lockHolder,  \* [exchange -> "none" | "loop" | "other"]: <exchange>_scraper.pid
    file,        \* [path -> [exists, full, json]]: the data directory
    df,          \* [exchange -> DataFrame]: the table of the running cycle
    hist,        \* [exchange -> map]: total_historical_volume of the running cycle
    fileAtStart, \* [exchange -> file]: the directory as it was when the iteration began
    contended,   \* [exchange -> BOOLEAN]: the lock was held when this iteration asked
    work,        \* [exchange -> set of kinds of cycle work done in this iteration]
    outcome,     \* [exchange -> how the last finished iteration ended]
    otherRunning, \* [exchange -> BOOLEAN]: the loop of this exchange in another
                 \* process is in its running cycle
    \* ---- analyse_all_symbols, one call ----
    symbols,     \* self.symbols: the universe, a sequence of distinct symbols
    retry_limit, \* the retry_limit argument
    max_workers, \* the max_workers argument
    failsBefore, \* [symbol -> Nat]: analyse_symbol raises on that many first attempts
    market,      \* [symbol -> the figures analyse_symbol derives for it]
    task,        \* [symbol -> [state, retry_count, attempts, slept, result]]:
                 \* the submitted futures; attempts counts the calls of
                 \* analyse_symbol, slept the one-second pauses
    seen,        \* the futures as_completed has yielded
    data,        \* the list the results are appended to
    poolPc,      \* "idle" | "collect" | "done" | "raised"
    poolDf,      \* the frame analyse_all_symbols returns
    \* ---- get_cached_funding ----
    clock,         \* datetime.now(), in hours
    funding_cache, \* [symbol -> <<>> | <<[fetched, rate]>>]: the global dict
    cache_lock,    \* [exchange -> "free" | worker]: the Lock of that scraper instance
    scraperOf,     \* [worker -> exchange]: the scraper instance a worker runs in
    call,          \* [worker -> its call of get_cached_funding]
    calls,         \* calls made so far
    \* ---- combine_and_save_rotator_data ----
    data_binance,  \* the first argument
    data_bybit,    \* the second argument
    combined_data, \* the frame that is saved
    combined_file, \* the file named by the filename argument
    mergePc,       \* "idle" | "called" | "done"
    \* ---- filter_df ----
    dataframe0,    \* the frame filter_df is given
    filterArgs,    \* [col, op, value] of the last call
    filtered,      \* what the last call returned
    filterPc,      \* "idle" | "ready" | "done" | "raised"
    \* ---- filter_quote ----
    quoteSymbols,  \* the symbols argument
    quotes,        \* the quotes argument of the last call
    quoteFiltered, \* what the last call returned
    quotePc,       \* "idle" | "ready" | "done"
    \* ---- get_all_historical_volume, one call ----
    histExchange,  \* the exchange_name argument
    histSymbols,   \* self.symbols
    klineFails,    \* [symbol -> BOOLEAN]: the kline fetch of the symbol raises
    histTask,      \* [symbol -> [state, fetches, result]]: the submitted futures
    histSeen,      \* the futures as_completed has yielded
    all_volume,    \* [symbol -> <<>> | <<volumes>>]: the dict being filled
    histPc,        \* "idle" | "collect" | "unwinding" | "returned" | "raised"
    histResult,    \* <<>> | <<the dict the call returned>>
    \* ---- filter_volume ----
    volSymbols,    \* the symbols argument
    volumes,       \* the volumes argument: the items of the dict, in dict order
    volLimit,      \* the limit argument of the last call
    volFiltered,   \* what the last call returned
    volPc,         \* "idle" | "ready" | "done"
    \* ---- get_mfi ----
    mfiBars,       \* the frame of the fetched bars with its mfi and rsi columns
    mfiLookback,   \* the lookback argument of the last call
    mfiVerdict,    \* what the last call returned
    mfiPc,         \* "idle" | "ready" | "done"
    \* ---- the executor of a fan-out, by numbers of tasks ----
    fanCall,       \* the method that fans out, "" when none
    fanWorkers,    \* max_workers of its ThreadPoolExecutor
    fanSubmitted,  \* calls of executor.submit: one per symbol of self.symbols
    fanQueued,     \* submitted tasks no worker has taken yet
    fanRunning,    \* tasks a worker is executing
    fanFinished    \* tasks that returned or raised

loopVars == <<pc, alive, iter, lockHolder, file, df, hist, fileAtStart,
              contended, work, outcome>>

poolVars == <<symbols, retry_limit, max_workers, failsBefore, market, task,
              seen, data, poolPc, poolDf>>

cacheVars == <<clock, funding_cache, cache_lock, scraperOf, call, calls>>

mergeVars == <<data_binance, data_bybit, combined_data, combined_file, mergePc>>

filterVars == <<dataframe0, filterArgs, filtered, filterPc>>

quoteVars == <<quoteSymbols, quotes, quoteFiltered, quotePc>>

histVars == <<histExchange, histSymbols, klineFails, histTask, histSeen,
              all_volume, histPc, histResult>>

otherVars == <<otherRunning>>

fanVars == <<fanCall, fanWorkers, fanSubmitted, fanQueued, fanRunning, fanFinished>>

volVars == <<volSymbols, volumes, volLimit, volFiltered, volPc>>

mfiVars == <<mfiBars, mfiLookback, mfiVerdict, mfiPc>>

vars == <<loopVars, poolVars, cacheVars, mergeVars, filterVars, quoteVars, histVars,
          volVars, mfiVars, otherVars, fanVars>>

notLoopVars == <<poolVars, cacheVars, mergeVars, filterVars, quoteVars, histVars,
    volVars, mfiVars, otherVars, fanVars>>
notPoolVars == <<loopVars, cacheVars, mergeVars, filterVars, quoteVars, histVars,
    volVars, mfiVars, otherVars, fanVars>>
notCacheVars == <<loopVars, poolVars, mergeVars, filterVars, quoteVars, histVars,
    volVars, mfiVars, otherVars, fanVars>>
notMergeVars == <<loopVars, poolVars, cacheVars, filterVars, quoteVars, histVars,
    volVars, mfiVars, otherVars, fanVars>>
notFilterVars == <<loopVars, poolVars, cacheVars, mergeVars, quoteVars, histVars,
    volVars, mfiVars, otherVars, fanVars>>
notQuoteVars == <<loopVars, poolVars, cacheVars, mergeVars, filterVars, histVars,
    volVars, mfiVars, otherVars, fanVars>>
notHistVars == <<loopVars, poolVars, cacheVars, mergeVars, filterVars, quoteVars,
    volVars, mfiVars, otherVars, fanVars>>
notLoopOtherVars == <<poolVars, cacheVars, mergeVars, filterVars, quoteVars,
    histVars, volVars, mfiVars, fanVars>>
notFanVars == <<loopVars, poolVars, cacheVars, mergeVars, filterVars, quoteVars,
    histVars, volVars, mfiVars, otherVars>>
notVolVars == <<loopVars, poolVars, cacheVars, mergeVars, filterVars, quoteVars,
    histVars, mfiVars, otherVars, fanVars>>
notMfiVars == <<loopVars, poolVars, cacheVars, mergeVars, filterVars, quoteVars,
    histVars, volVars, otherVars, fanVars>>

----------------------------------------------------------------------------
(* Bounds of the model *)

MaxIter == 2
MaxRetry == 3
MaxClock == 5
MaxCalls == 3
MaxLimit == 4
MaxBars == 3
WideUniverse == 21

----------------------------------------------------------------------------
(* Tables *)

Exchanges == {"binance", "bybit"}

MkRow(ix, asset, price, v1m, v5m, spread5m, funding, ts) ==
    [index |-> ix, Asset |-> asset, Price |-> price,
     v1m |-> v1m, v5m |-> v5m, v30m |-> v5m + v1m, v1h |-> v5m + v5m,
     spread5m |-> spread5m, Funding |-> funding, Timestamp |-> ts]

RowBefore_FirstKeyOnly(r, s, by) == by # <<>> /\ r[Head(by)] > s[Head(by)]

\* r sorts strictly before s under sort_values(by, ascending all False)
RECURSIVE RowBefore(_, _, _)
RowBefore(r, s, by) ==
    IF by = <<>> THEN FALSE
    ELSE LET c == Head(by) IN
         IF r[c] > s[c] THEN TRUE
         ELSE IF r[c] < s[c] THEN FALSE
         ELSE RowBefore(r, s, Tail(by))

\* put r into an already sorted frame, behind every row it does not precede
RECURSIVE InsertRow(_, _, _)
InsertRow(sorted, r, by) ==
    IF sorted = <<>> THEN <<r>>
    ELSE IF RowBefore(r, Head(sorted), by) THEN <<r>> \o sorted
    ELSE <<Head(sorted)>> \o InsertRow(Tail(sorted), r, by)

\* DataFrame.sort_values(by=[...], ascending=[False, ...]): with several keys
\* pandas sorts with a stable lexsort, so equal rows keep their frame order
RECURSIVE SortValues(_, _)
SortValues(frame, by) ==
    IF frame = <<>> THEN <<>>
    ELSE InsertRow(SortValues(SubSeq(frame, 1, Len(frame) - 1), by),
                   frame[Len(frame)], by)

\* dataframe[mask]: the rows whose mask entry is true, in frame order
RECURSIVE BoolIndex(_, _)
BoolIndex(frame, mask) ==
    IF frame = <<>> THEN <<>>
    ELSE (IF Head(mask) THEN <<Head(frame)>> ELSE <<>>)
         \o BoolIndex(Tail(frame), Tail(mask))

\* CombinedScraper.filter_df: a frame for the three operators, None otherwise
FilterDf_Inclusive(dataframe, filter_col, operator, value) ==
    IF operator = ">" THEN
        [none |-> FALSE,
         rows |-> BoolIndex(dataframe,
                    [i \in DOMAIN dataframe |-> dataframe[i][filter_col] >= value])]
    ELSE IF operator = "<" THEN
        [none |-> FALSE,
         rows |-> BoolIndex(dataframe,
                    [i \in DOMAIN dataframe |-> dataframe[i][filter_col] < value])]
    ELSE IF operator = "==" THEN
        [none |-> FALSE,
         rows |-> BoolIndex(dataframe,
                    [i \in DOMAIN dataframe |-> dataframe[i][filter_col] = value])]
    ELSE [none |-> TRUE, rows |-> <<>>]

FilterDf(dataframe, filter_col, operator, value) ==
    IF operator = ">" THEN
        [none |-> FALSE,
         rows |-> BoolIndex(dataframe,
                    [i \in DOMAIN dataframe |-> dataframe[i][filter_col] > value])]
    ELSE IF operator = "<" THEN
        [none |-> FALSE,
         rows |-> BoolIndex(dataframe,
                    [i \in DOMAIN dataframe |-> dataframe[i][filter_col] < value])]
    ELSE IF operator = "==" THEN
        [none |-> FALSE,
         rows |-> BoolIndex(dataframe,
                    [i \in DOMAIN dataframe |-> dataframe[i][filter_col] = value])]
    ELSE [none |-> TRUE, rows |-> <<>>]

\* CombinedScraper.reduce_df: dataframe[columns] keeps the index and the columns
ReduceDf(dataframe, columns) ==
    [i \in DOMAIN dataframe |->
        [c \in {columns[k] : k \in DOMAIN columns} \cup {"index"} |-> dataframe[i][c]]]

\* DataFrame.to_json(orient="records"): one object per row, in frame order,
\* holding the row's columns and not its index label
ToJson(dataframe) ==
    [i \in DOMAIN dataframe |->
        [c \in (DOMAIN dataframe[i]) \ {"index"} |-> dataframe[i][c]]]

----------------------------------------------------------------------------
(* The data directory *)

DataDir == "/var/www/api/data/"

main_path_quant(exchange_name) == DataDir \o "quantdatav2_" \o exchange_name \o ".json"
temp_path_quant_InPlace(exchange_name) ==
    DataDir \o "quantdatav2_" \o exchange_name \o ".json"
temp_path_quant(exchange_name) == DataDir \o "quantdatav2_" \o exchange_name \o "_temp.json"
old_path == DataDir \o "quantdatav2.json"
old_temp_path == DataDir \o "quantdatav2_temp.json"
main_path_trade(exchange_name) == DataDir \o "whattotrade_" \o exchange_name \o ".json"
temp_path_trade_Shared(exchange_name) == DataDir \o "whattotrade_temp.json"
temp_path_trade(exchange_name) == DataDir \o "whattotrade_" \o exchange_name \o "_temp.json"
main_path(exchange_name) == DataDir \o "rotatorsymbols_" \o exchange_name \o ".json"
temp_path(exchange_name) == DataDir \o "rotatorsymbols_" \o exchange_name \o "_temp.json"
old_rotator_path == DataDir \o "rotatorsymbols.json"
negative_path(exchange_name) == DataDir \o "negativefunding_" \o exchange_name \o ".json"
positive_path(exchange_name) == DataDir \o "positivefunding_" \o exchange_name \o ".json"
hist_path(exchange_name) == DataDir \o "total_historical_volume_" \o exchange_name \o ".json"

\* the paths a consumer reads
DestPaths(e) ==
    {main_path_quant(e), main_path_trade(e), main_path(e), negative_path(e),
     positive_path(e), hist_path(e)}
    \cup (IF e = "bybit" THEN {old_path, old_rotator_path} ELSE {})

TempPaths(e) ==
    {temp_path_quant(e), temp_path_trade(e), temp_path(e)}
    \cup (IF e = "bybit" THEN {old_temp_path} ELSE {})

AllDestPaths == UNION {DestPaths(e) : e \in Exchanges}
AllPaths == AllDestPaths \cup UNION {TempPaths(e) : e \in Exchanges}

NoFile == [exists |-> FALSE, full |-> FALSE, json |-> <<>>]
\* open(path, "w"): the file exists and is empty until the text is written
Truncated == [exists |-> TRUE, full |-> FALSE, json |-> <<>>]
Complete(json) == [exists |-> TRUE, full |-> TRUE, json |-> json]

\* what a destination holds before the first cycle: a snapshot of an earlier run
EarlierSnapshot == Complete(<<[Asset |-> "AAAUSDT", Timestamp |-> 0]>>)

----------------------------------------------------------------------------
(* run_scraper_for_exchange *)

\* what analyse_all_symbols collected in the n-th cycle, in completion order
CycleData(n) ==
    { << MkRow(0, "AAAUSDT", 1, 200, 20000, 3, -1, n),
         MkRow(1, "BBBUSDT", 1, 100, 15000, 2, 1, n) >>,
      << MkRow(0, "BBBUSDT", 1, 300, 16000, 1, 0, n),
         MkRow(1, "AAAUSDT", 1, 300, 17000, 2, -2, n) >> }

\* what get_all_historical_volume returns in the n-th cycle
CycleVolume(n) ==
    << [symbol |-> "BBBUSDT", volume |-> <<n, n + 1>>],
       [symbol |-> "AAAUSDT", volume |-> <<n + 2, n>>] >>

\* scraper.output_df(dataframe=view, path=temp, to="json"); os.rename(temp, dest)
Publish(view, temp, dest) ==
    << [op |-> "open", path |-> temp, to |-> dest, view |-> view],
       [op |-> "write", path |-> temp, to |-> dest, view |-> view],
       [op |-> "rename", path |-> temp, to |-> dest, view |-> view] >>

\* scraper.output_df(dataframe=view, path=path, to="json"), or open(path, "w")
\* followed by json.dump
WriteInPlace(view, path) ==
    << [op |-> "open", path |-> path, to |-> path, view |-> view],
       [op |-> "write", path |-> path, to |-> path, view |-> view] >>

Call(op) == << [op |-> op, path |-> "", to |-> "", view |-> ""] >>

CycleSteps_HistFirst(exchange_name) ==
    Call("init")
    \o Call("analyse")
    \o Call("historical_volume")
    \o Publish("df", temp_path_quant(exchange_name), main_path_quant(exchange_name))
    \o (IF exchange_name = "bybit"
        THEN Publish("df", old_temp_path, old_path) ELSE <<>>)
    \o Publish("to_trade", temp_path_trade(exchange_name), main_path_trade(exchange_name))
    \o Publish("rotator_symbols", temp_path(exchange_name), main_path(exchange_name))
    \o (IF exchange_name = "bybit"
        THEN WriteInPlace("rotator_symbols", old_rotator_path) ELSE <<>>)
    \o WriteInPlace("negative", negative_path(exchange_name))
    \o WriteInPlace("positive", positive_path(exchange_name))
    \o WriteInPlace("total_historical_volume", hist_path(exchange_name))
    \o Call("exit")

CycleSteps_LegacyForAll(exchange_name) ==
    Call("init")
    \o Call("analyse")
    \o Publish("df", temp_path_quant(exchange_name), main_path_quant(exchange_name))
    \o Publish("df", old_temp_path, old_path)
    \o Publish("to_trade", temp_path_trade(exchange_name), main_path_trade(exchange_name))
    \o Publish("rotator_symbols", temp_path(exchange_name), main_path(exchange_name))
    \o WriteInPlace("rotator_symbols", old_rotator_path)
    \o WriteInPlace("negative", negative_path(exchange_name))
    \o WriteInPlace("positive", positive_path(exchange_name))
    \o Call("historical_volume")
    \o WriteInPlace("total_historical_volume", hist_path(exchange_name))
    \o Call("exit")

CycleSteps_OpenHistFirst(exchange_name) ==
    Call("init")
    \o Call("analyse")
    \o Publish("df", temp_path_quant(exchange_name), main_path_quant(exchange_name))
    \o (IF exchange_name = "bybit"
        THEN Publish("df", old_temp_path, old_path) ELSE <<>>)
    \o Publish("to_trade", temp_path_trade(exchange_name), main_path_trade(exchange_name))
    \o Publish("rotator_symbols", temp_path(exchange_name), main_path(exchange_name))
    \o (IF exchange_name = "bybit"
        THEN WriteInPlace("rotator_symbols", old_rotator_path) ELSE <<>>)
    \o WriteInPlace("negative", negative_path(exchange_name))
    \o WriteInPlace("positive", positive_path(exchange_name))
    \o << [op |-> "open", path |-> hist_path(exchange_name),
           to |-> hist_path(exchange_name), view |-> "total_historical_volume"] >>
    \o Call("historical_volume")
    \o << [op |-> "write", path |-> hist_path(exchange_name),
           to |-> hist_path(exchange_name), view |-> "total_historical_volume"] >>
    \o Call("exit")

\* the body of the with block, statement by statement
CycleSteps(exchange_name) ==
    Call("init")
    \o Call("analyse")
    \o Publish("df", temp_path_quant(exchange_name), main_path_quant(exchange_name))
    \o (IF exchange_name = "bybit"
        THEN Publish("df", old_temp_path, old_path) ELSE <<>>)
    \o Publish("to_trade", temp_path_trade(exchange_name), main_path_trade(exchange_name))
    \o Publish("rotator_symbols", temp_path(exchange_name), main_path(exchange_name))
    \o (IF exchange_name = "bybit"
        THEN WriteInPlace("rotator_symbols", old_rotator_path) ELSE <<>>)
    \o WriteInPlace("negative", negative_path(exchange_name))
    \o WriteInPlace("positive", positive_path(exchange_name))
    \o Call("historical_volume")
    \o WriteInPlace("total_historical_volume", hist_path(exchange_name))
    \o Call("exit")

\* the text a write step puts into its file
ViewJson(e, view) ==
    IF view = "df" THEN ToJson(df[e])
    ELSE IF view = "to_trade" THEN
        ToJson(FilterDf(df[e], "v5m", ">", 15000).rows)
    ELSE IF view = "rotator_symbols" THEN
        ToJson(SortValues(FilterDf(df[e], "v5m", ">", 15000).rows,
                          <<"v5m", "spread5m">>))
    ELSE IF view = "negative" THEN
        ToJson(ReduceDf(FilterDf(df[e], "Funding", "<", 0).rows,
                        <<"Asset", "v1m", "Funding">>))
    ELSE IF view = "positive" THEN
        ToJson(ReduceDf(FilterDf(df[e], "Funding", ">", 0).rows,
                        <<"Asset", "v1m", "Funding">>))
    ELSE hist[e]

At(l) == [at |-> l, i |-> 0]
Running(e) == pc[e].at = "run" /\ alive[e]
Step(e) == CycleSteps(e)[pc[e].i]
Advance(e) == pc' = [pc EXCEPT ![e].i = @ + 1]

LockAvailable_Always(e) == TRUE

LockAvailable_OwnOnly(e) == lockHolder[e] # "loop"

LockAvailable_Shared(e) == \A x \in DOMAIN lockHolder : lockHolder[x] = "none"

\* pidfile.PIDFile.__enter__: the lock is free
LockAvailable(e) == lockHolder[e] = "none"

ExceptionHandlerPc_Propagate == At("terminated")

\* where the loop goes when the with block raised: except Exception, finally
ExceptionHandlerPc == At("sleeping")

Acquire_Blocking(e) ==
    /\ pc[e].at = "acquire" /\ alive[e]
    /\ LockAvailable(e)
    /\ iter' = [iter EXCEPT ![e] = @ + 1]
    /\ fileAtStart' = [fileAtStart EXCEPT ![e] = file]
    /\ work' = [work EXCEPT ![e] = {}]
    /\ contended' = [contended EXCEPT ![e] = FALSE]
    /\ lockHolder' = [lockHolder EXCEPT ![e] = "loop"]
    /\ pc' = [pc EXCEPT ![e] = [at |-> "run", i |-> 1]]
    /\ UNCHANGED <<alive, file, df, hist, outcome>>
    /\ UNCHANGED notLoopVars

\* with pidfile.PIDFile(...): take the lock, or AlreadyRunningError
Acquire(e) ==
    /\ pc[e].at = "acquire" /\ alive[e]
    /\ iter' = [iter EXCEPT ![e] = @ + 1]
    /\ fileAtStart' = [fileAtStart EXCEPT ![e] = file]
    /\ work' = [work EXCEPT ![e] = {}]
    /\ contended' = [contended EXCEPT ![e] = lockHolder[e] # "none"]
    /\ IF LockAvailable(e)
       THEN /\ lockHolder' = [lockHolder EXCEPT ![e] = "loop"]
            /\ pc' = [pc EXCEPT ![e] = [at |-> "run", i |-> 1]]
            /\ UNCHANGED outcome
       ELSE /\ pc' = [pc EXCEPT ![e] = At("sleeping")]
            /\ outcome' = [outcome EXCEPT ![e] = "skipped"]
            /\ UNCHANGED lockHolder
    /\ UNCHANGED <<alive, file, df, hist>>
    /\ UNCHANGED notLoopVars

\* CombinedScraper(exchange_name, filters): symbols, prices and volumes are fetched
Construct(e) ==
    /\ Running(e) /\ Step(e).op = "init"
    /\ work' = [work EXCEPT ![e] = @ \cup {"fetch"}]
    /\ Advance(e)
    /\ UNCHANGED <<alive, iter, lockHolder, file, df, hist, fileAtStart,
                   contended, outcome>>
    /\ UNCHANGED notLoopVars

\* df = scraper.analyse_all_symbols()
Analyse(e) ==
    /\ Running(e) /\ Step(e).op = "analyse"
    /\ \E collected \in CycleData(iter[e]) :
          df' = [df EXCEPT ![e] = SortValues(collected, <<"v1m", "spread5m">>)]
    /\ work' = [work EXCEPT ![e] = @ \cup {"fetch", "analysis"}]
    /\ Advance(e)
    /\ UNCHANGED <<alive, iter, lockHolder, file, hist, fileAtStart,
                   contended, outcome>>
    /\ UNCHANGED notLoopVars

\* the file is opened for writing: it is truncated
OpenFile(e) ==
    /\ Running(e) /\ Step(e).op = "open"
    /\ file' = [file EXCEPT ![Step(e).path] = Truncated]
    /\ work' = [work EXCEPT ![e] = @ \cup {"write"}]
    /\ Advance(e)
    /\ UNCHANGED <<alive, iter, lockHolder, df, hist, fileAtStart,
                   contended, outcome>>
    /\ UNCHANGED notLoopVars

\* the text is written and the file closed
WriteFile(e) ==
    /\ Running(e) /\ Step(e).op = "write"
    /\ file' = [file EXCEPT ![Step(e).path] = Complete(ViewJson(e, Step(e).view))]
    /\ Advance(e)
    /\ UNCHANGED <<alive, iter, lockHolder, df, hist, fileAtStart,
                   contended, work, outcome>>
    /\ UNCHANGED notLoopVars

\* os.rename(temp, dest)
Rename(e) ==
    /\ Running(e) /\ Step(e).op = "rename"
    /\ file[Step(e).path].exists
    /\ file' = IF Step(e).path = Step(e).to THEN file
               ELSE [file EXCEPT ![Step(e).to] = file[Step(e).path],
                                 ![Step(e).path] = NoFile]
    /\ work' = [work EXCEPT ![e] = @ \cup {"write"}]
    /\ Advance(e)
    /\ UNCHANGED <<alive, iter, lockHolder, df, hist, fileAtStart,
                   contended, outcome>>
    /\ UNCHANGED notLoopVars

\* total_historical_volume = scraper.get_all_historical_volume(...)
HistoricalVolume(e) ==
    /\ Running(e) /\ Step(e).op = "historical_volume"
    /\ hist' = [hist EXCEPT ![e] = CycleVolume(iter[e])]
    /\ work' = [work EXCEPT ![e] = @ \cup {"fetch"}]
    /\ Advance(e)
    /\ UNCHANGED <<alive, iter, lockHolder, file, df, fileAtStart,
                   contended, outcome>>
    /\ UNCHANGED notLoopVars

WithExit_NoSleep(e) ==
    /\ Running(e) /\ Step(e).op = "exit"
    /\ iter[e] < MaxIter
    /\ lockHolder' = [lockHolder EXCEPT ![e] = "none"]
    /\ pc' = [pc EXCEPT ![e] = At("acquire")]
    /\ outcome' = [outcome EXCEPT ![e] = "ok"]
    /\ UNCHANGED <<alive, iter, file, df, hist, fileAtStart, contended, work>>
    /\ UNCHANGED notLoopVars

\* the with block ends: PIDFile.__exit__, then finally: time.sleep(60)
WithExit(e) ==
    /\ Running(e) /\ Step(e).op = "exit"
    /\ lockHolder' = [lockHolder EXCEPT ![e] = "none"]
    /\ pc' = [pc EXCEPT ![e] = At("sleeping")]
    /\ outcome' = [outcome EXCEPT ![e] = "ok"]
    /\ UNCHANGED <<alive, iter, file, df, hist, fileAtStart, contended, work>>
    /\ UNCHANGED notLoopVars

Raise_KeepsLock(e) ==
    /\ Running(e) /\ Step(e).op # "exit"
    /\ pc' = [pc EXCEPT ![e] = ExceptionHandlerPc]
    /\ outcome' = [outcome EXCEPT ![e] = "error"]
    /\ UNCHANGED <<alive, iter, lockHolder, file, df, hist, fileAtStart,
                   contended, work>>
    /\ UNCHANGED notLoopVars

\* the statement at hand raises: PIDFile.__exit__, except Exception, finally
Raise(e) ==
    /\ Running(e) /\ Step(e).op # "exit"
    /\ lockHolder' = [lockHolder EXCEPT ![e] = "none"]
    /\ pc' = [pc EXCEPT ![e] = ExceptionHandlerPc]
    /\ outcome' = [outcome EXCEPT ![e] = "error"]
    /\ UNCHANGED <<alive, iter, file, df, hist, fileAtStart, contended, work>>
    /\ UNCHANGED notLoopVars

\* time.sleep(60) returns and while True goes round
Wake(e) ==
    /\ pc[e].at = "sleeping" /\ alive[e]
    /\ iter[e] < MaxIter
    /\ pc' = [pc EXCEPT ![e] = At("acquire")]
    /\ UNCHANGED <<alive, iter, lockHolder, file, df, hist, fileAtStart,
                   contended, work, outcome>>
    /\ UNCHANGED notLoopVars

\* the process is stopped; a pid file it leaves names no running process
Crash(e) ==
    /\ alive[e] /\ pc[e].at # "idle"
    /\ alive' = [alive EXCEPT ![e] = FALSE]
    /\ lockHolder' = [lockHolder EXCEPT ![e] = IF @ = "loop" THEN "none" ELSE @]
    /\ UNCHANGED <<pc, iter, file, df, hist, fileAtStart, contended, work, outcome>>
    /\ UNCHANGED notLoopVars

\* the loop has slept after the last iteration the bound gives it
LoopOver(e) == pc[e].at = "sleeping" /\ iter[e] >= MaxIter

\* the loop of the same exchange in another process takes the pid file and
\* begins its cycle
OtherAcquire(e) ==
    /\ pc[e].at # "idle" /\ ~LoopOver(e)
    /\ ~otherRunning[e]
    /\ LockAvailable(e)
    /\ lockHolder' = [lockHolder EXCEPT ![e] = "other"]
    /\ otherRunning' = [otherRunning EXCEPT ![e] = TRUE]
    /\ UNCHANGED <<pc, alive, iter, file, df, hist, fileAtStart, contended,
                   work, outcome>>
    /\ UNCHANGED notLoopOtherVars

\* that cycle ends and its with block releases the pid file
OtherRelease(e) ==
    /\ otherRunning[e] /\ lockHolder[e] = "other"
    /\ lockHolder' = [lockHolder EXCEPT ![e] = "none"]
    /\ otherRunning' = [otherRunning EXCEPT ![e] = FALSE]
    /\ UNCHANGED <<pc, alive, iter, file, df, hist, fileAtStart, contended,
                   work, outcome>>
    /\ UNCHANGED notLoopOtherVars

LoopIdle ==
    /\ pc = [e \in Exchanges |-> At("idle")]
    /\ alive = [e \in Exchanges |-> TRUE]
    /\ iter = [e \in Exchanges |-> 0]
    /\ lockHolder = [e \in Exchanges |-> "none"]
    /\ file = [p \in AllPaths |-> NoFile]
    /\ df = [e \in Exchanges |-> <<>>]
    /\ hist = [e \in Exchanges |-> <<>>]
    /\ fileAtStart = [e \in Exchanges |-> [p \in AllPaths |-> NoFile]]
    /\ contended = [e \in Exchanges |-> FALSE]
    /\ work = [e \in Exchanges |-> {}]
    /\ outcome = [e \in Exchanges |-> "none"]
    /\ otherRunning = [e \in Exchanges |-> FALSE]

\* one exchange's loop has been started; the data directory holds an earlier run
InitLoop ==
    /\ \E e0 \in Exchanges :
          pc = [e \in Exchanges |-> IF e = e0 THEN At("acquire") ELSE At("idle")]
    /\ alive = [e \in Exchanges |-> TRUE]
    /\ iter = [e \in Exchanges |-> 0]
    /\ lockHolder = [e \in Exchanges |-> "none"]
    /\ file = [p \in AllPaths |-> IF p \in AllDestPaths THEN EarlierSnapshot ELSE NoFile]
    /\ df = [e \in Exchanges |-> <<>>]
    /\ hist = [e \in Exchanges |-> <<>>]
    /\ fileAtStart = [e \in Exchanges |-> file]
    /\ contended = [e \in Exchanges |-> FALSE]
    /\ work = [e \in Exchanges |-> {}]
    /\ outcome = [e \in Exchanges |-> "none"]
    /\ otherRunning = [e \in Exchanges |-> FALSE]

\* one exchange's loop at the attempt that begins the last two iterations of
\* the bound: the iterations before found the lock held and were skipped
InitLoopFair ==
    /\ \E e0 \in Exchanges :
          pc = [e \in Exchanges |-> IF e = e0 THEN At("acquire") ELSE At("idle")]
    /\ alive = [e \in Exchanges |-> TRUE]
    /\ iter = [e \in Exchanges |-> MaxIter - 2]
    /\ lockHolder = [e \in Exchanges |-> "none"]
    /\ file = [p \in AllPaths |-> IF p \in AllDestPaths THEN EarlierSnapshot ELSE NoFile]
    /\ df = [e \in Exchanges |-> <<>>]
    /\ hist = [e \in Exchanges |-> <<>>]
    /\ fileAtStart = [e \in Exchanges |-> file]
    /\ contended = [e \in Exchanges |-> FALSE]
    /\ work = [e \in Exchanges |-> {}]
    /\ outcome = [e \in Exchanges |-> "none"]
    /\ otherRunning = [e \in Exchanges |-> FALSE]

\* both loops of the process, each about to wake for its last iteration of
\* the bound: the iterations before found the lock held and were skipped
InitTwoLoops ==
    /\ pc = [e \in Exchanges |-> At("sleeping")]
    /\ alive = [e \in Exchanges |-> TRUE]
    /\ iter = [e \in Exchanges |-> MaxIter - 1]
    /\ lockHolder = [e \in Exchanges |-> "none"]
    /\ file = [p \in AllPaths |-> IF p \in AllDestPaths THEN EarlierSnapshot ELSE NoFile]
    /\ df = [e \in Exchanges |-> <<>>]
    /\ hist = [e \in Exchanges |-> <<>>]
    /\ fileAtStart = [e \in Exchanges |-> file]
    /\ contended = [e \in Exchanges |-> TRUE]
    /\ work = [e \in Exchanges |-> {}]
    /\ outcome = [e \in Exchanges |-> "skipped"]
    /\ otherRunning = [e \in Exchanges |-> FALSE]

\* the statements of the loop of one exchange
LoopStep(e) ==
    \/ Acquire(e)
    \/ Construct(e)
    \/ Analyse(e)
    \/ OpenFile(e)
    \/ WriteFile(e)
    \/ Rename(e)
    \/ HistoricalVolume(e)
    \/ WithExit(e)
    \/ Raise(e)
    \/ Wake(e)

\* one loop of a process that is not stopped, and the loops of other processes
NextLoopFair ==
    \E e \in Exchanges :
        \/ LoopStep(e)
        \/ OtherAcquire(e)
        \/ OtherRelease(e)

\* the two threads of __main__, and the loops of other processes
NextTwoLoops ==
    \E e \in Exchanges :
        \/ LoopStep(e)
        \/ OtherAcquire(e)
        \/ OtherRelease(e)

NextLoop ==
    \E e \in Exchanges :
        \/ Acquire(e)
        \/ Construct(e)
        \/ Analyse(e)
        \/ OpenFile(e)
        \/ WriteFile(e)
        \/ Rename(e)
        \/ HistoricalVolume(e)
        \/ WithExit(e)
        \/ Raise(e)
        \/ Wake(e)
        \/ Crash(e)
        \/ OtherAcquire(e)
        \/ OtherRelease(e)

----------------------------------------------------------------------------
(* analyse_all_symbols and retry_analyse_symbol *)

Universe == <<"AAAUSDT", "BBBUSDT", "CCCUSDT">>
SymbolSet == {Universe[i] : i \in DOMAIN Universe}

\* the figures of a symbol: one market where all differ, one with equal keys
Markets ==
    { [s \in SymbolSet |->
         IF s = "AAAUSDT" THEN [v1m |-> 100, v5m |-> 20000, spread5m |-> 2, Funding |-> -1]
         ELSE IF s = "BBBUSDT" THEN [v1m |-> 300, v5m |-> 15000, spread5m |-> 1, Funding |-> 1]
         ELSE [v1m |-> 100, v5m |-> 16000, spread5m |-> 3, Funding |-> 0]],
      [s \in SymbolSet |->
         IF s = "AAAUSDT" THEN [v1m |-> 100, v5m |-> 20000, spread5m |-> 2, Funding |-> -1]
         ELSE [v1m |-> 100, v5m |-> 16000, spread5m |-> 2, Funding |-> 1]] }

\* analyse_symbol raises on the first failsBefore[symbol] attempts
AnalysisSucceeds(symbol, attempt) == attempt > failsBefore[symbol]

\* the values dict analyse_symbol returns; its Timestamp tells the attempt
AnalyseSymbol(symbol, attempt) ==
    [Asset |-> symbol, Price |-> 1,
     v1m |-> market[symbol].v1m, v5m |-> market[symbol].v5m,
     v30m |-> market[symbol].v5m + market[symbol].v1m,
     v1h |-> market[symbol].v5m + market[symbol].v5m,
     spread5m |-> market[symbol].spread5m, Funding |-> market[symbol].Funding,
     Timestamp |-> attempt]

KeepTrying_OneShort(retry_count, limit) == retry_count < limit - 1

KeepTrying_OneMore(retry_count, limit) == retry_count <= limit

\* while retry_count < retry_limit
KeepTrying(retry_count, limit) == retry_count < limit

\* one round of retry_analyse_symbol's loop, or the raise that follows it:
\* the call of analyse_symbol is an attempt; a failed one is counted, logged
\* and followed by time.sleep(1)
RetryAnalyseSymbol(t, symbol, limit) ==
    IF KeepTrying(t.retry_count, limit)
    THEN IF AnalysisSucceeds(symbol, t.attempts + 1)
         THEN [t EXCEPT !.state = "returned", !.attempts = @ + 1,
                        !.result = <<AnalyseSymbol(symbol, t.attempts + 1)>>]
         ELSE [t EXCEPT !.retry_count = @ + 1, !.attempts = @ + 1,
                        !.slept = @ + 1]
    ELSE [t EXCEPT !.state = "raised"]

FanIn_NoCatch(list, t) ==
    IF t.state = "returned"
    THEN [data |-> Append(list, t.result[1]), raised |-> FALSE]
    ELSE [data |-> list, raised |-> TRUE]

\* the body of the as_completed loop: future.result() inside try/except
FanIn(list, t) ==
    IF t.state = "returned"
    THEN [data |-> Append(list, t.result[1]), raised |-> FALSE]
    ELSE [data |-> list, raised |-> FALSE]

\* pd.DataFrame(data, columns=[...]): the rows get the index labels 0, 1, ...
DataFrame(list) ==
    [i \in DOMAIN list |->
        [c \in DOMAIN list[i] \cup {"index"} |->
            IF c = "index" THEN i - 1 ELSE list[i][c]]]

Queued == [state |-> "queued", retry_count |-> 0, attempts |-> 0, slept |-> 0,
           result |-> <<>>]
RunningTasks == {s \in SymbolSet : task[s].state = "running"}
Finished(s) == task[s].state \in {"returned", "raised"}

\* a worker of the executor takes the oldest queued call
StartTask(i) ==
    /\ poolPc = "collect"
    /\ i \in DOMAIN symbols
    /\ task[symbols[i]].state = "queued"
    /\ \A j \in 1..(i - 1) : task[symbols[j]].state # "queued"
    /\ Cardinality(RunningTasks) < max_workers
    /\ task' = [task EXCEPT ![symbols[i]].state = "running"]
    /\ UNCHANGED <<symbols, retry_limit, max_workers, failsBefore, market,
                   seen, data, poolPc, poolDf>>
    /\ UNCHANGED notPoolVars

\* a running call makes its next attempt, or gives up
Attempt(s) ==
    /\ poolPc = "collect"
    /\ task[s].state = "running"
    /\ task' = [task EXCEPT ![s] = RetryAnalyseSymbol(task[s], s, retry_limit)]
    /\ UNCHANGED <<symbols, retry_limit, max_workers, failsBefore, market,
                   seen, data, poolPc, poolDf>>
    /\ UNCHANGED notPoolVars

\* as_completed yields a finished future
Collect(s) ==
    /\ poolPc = "collect"
    /\ Finished(s) /\ s \notin seen
    /\ seen' = seen \cup {s}
    /\ data' = FanIn(data, task[s]).data
    /\ poolPc' = IF FanIn(data, task[s]).raised THEN "raised" ELSE poolPc
    /\ UNCHANGED <<symbols, retry_limit, max_workers, failsBefore, market,
                   task, poolDf>>
    /\ UNCHANGED notPoolVars

Return_NoBarrier ==
    /\ poolPc = "collect"
    /\ poolDf' = SortValues(DataFrame(data), <<"v1m", "spread5m">>)
    /\ poolPc' = "done"
    /\ UNCHANGED <<symbols, retry_limit, max_workers, failsBefore, market,
                   task, seen, data>>
    /\ UNCHANGED notPoolVars

\* every future was yielded: the frame is built, sorted and returned
Return ==
    /\ poolPc = "collect"
    /\ seen = {symbols[i] : i \in DOMAIN symbols}
    /\ poolDf' = SortValues(DataFrame(data), <<"v1m", "spread5m">>)
    /\ poolPc' = "done"
    /\ UNCHANGED <<symbols, retry_limit, max_workers, failsBefore, market,
                   task, seen, data>>
    /\ UNCHANGED notPoolVars

PoolIdle ==
    /\ symbols = <<>>
    /\ retry_limit = 0
    /\ max_workers = 0
    /\ failsBefore = [s \in SymbolSet |-> 0]
    /\ market \in {m \in Markets : m["CCCUSDT"].Funding = 0}
    /\ task = [s \in SymbolSet |-> Queued]
    /\ seen = {}
    /\ data = <<>>
    /\ poolPc = "idle"
    /\ poolDf = <<>>

\* analyse_all_symbols was called and has submitted one call per symbol
InitPool ==
    /\ symbols = Universe
    /\ retry_limit \in 0..MaxRetry
    /\ max_workers \in {1, 2}
    /\ failsBefore \in [SymbolSet -> 0..MaxRetry]
    /\ market \in Markets
    /\ task = [s \in SymbolSet |-> Queued]
    /\ seen = {}
    /\ data = <<>>
    /\ poolPc = "collect"
    /\ poolDf = <<>>

NextPool ==
    \/ \E i \in DOMAIN Universe : StartTask(i)
    \/ \E s \in SymbolSet : Attempt(s)
    \/ \E s \in SymbolSet : Collect(s)
    \/ Return

----------------------------------------------------------------------------
(* get_cached_funding *)

Workers == {"w1", "w2"}
CacheSymbols == {"AAAUSDT", "BBBUSDT"}

\* self.FUNDING_CACHE_DURATION = timedelta(hours=4)
FUNDING_CACHE_DURATION == 4

\* what exchange.get_funding_rate may answer on bybit
ExchangeRates == {-1, 2}

\* self.exchange.get_funding_rate(symbol=symbol) of the scraper of an
\* exchange: self.exchange is Binance() or Bybit(); the rates of the two are
\* kept apart so that a rate tells the exchange it was fetched from
get_funding_rate(exchange_name) ==
    IF exchange_name = "bybit" THEN ExchangeRates ELSE {3}

IsCachedFresh_AtBoundary(cache, symbol, now) ==
    /\ cache[symbol] # <<>>
    /\ now - cache[symbol][1].fetched <= FUNDING_CACHE_DURATION

\* symbol in self.funding_cache and now - last_fetched < self.FUNDING_CACHE_DURATION
IsCachedFresh(cache, symbol, now) ==
    /\ cache[symbol] # <<>>
    /\ now - cache[symbol][1].fetched < FUNDING_CACHE_DURATION

NoCall == [pc |-> "idle", symbol |-> "", now |-> 0, rate |-> 0, ret |-> 0,
           fetches |-> 0, entryAtCall |-> <<>>]
CallOver(w) == call[w].pc \in {"idle", "returned", "raised"}

\* get_cached_funding(symbol) is entered: now = datetime.now()
CallFunding(w, symbol) ==
    /\ CallOver(w)
    /\ calls < MaxCalls
    /\ calls' = calls + 1
    /\ call' = [call EXCEPT ![w] =
                  [pc |-> "lock1", symbol |-> symbol, now |-> clock, rate |-> 0,
                   ret |-> 0, fetches |-> 0, entryAtCall |-> funding_cache[symbol]]]
    /\ UNCHANGED <<clock, funding_cache, cache_lock, scraperOf>>
    /\ UNCHANGED notCacheVars

\* the same, made while no other call is under way
CallFundingAlone(w, symbol) ==
    /\ \A v \in Workers : CallOver(v)
    /\ CallFunding(w, symbol)

\* with self.cache_lock: (the first one)
LockForCheck(w) ==
    /\ call[w].pc = "lock1"
    /\ cache_lock[scraperOf[w]] = "free"
    /\ cache_lock' = [cache_lock EXCEPT ![scraperOf[w]] = w]
    /\ call' = [call EXCEPT ![w].pc = "check"]
    /\ UNCHANGED <<clock, funding_cache, scraperOf, calls>>
    /\ UNCHANGED notCacheVars

CheckCache_HoldLock(w) ==
    /\ call[w].pc = "check"
    /\ IF IsCachedFresh(funding_cache, call[w].symbol, call[w].now)
       THEN /\ call' = [call EXCEPT ![w].pc = "returned",
                                    ![w].ret = funding_cache[call[w].symbol][1].rate]
            /\ cache_lock' = [cache_lock EXCEPT ![scraperOf[w]] = "free"]
       ELSE /\ call' = [call EXCEPT ![w].pc = "fetch"]
            /\ UNCHANGED cache_lock
    /\ UNCHANGED <<clock, funding_cache, scraperOf, calls>>
    /\ UNCHANGED notCacheVars

\* the entry is looked up; a fresh one is returned; the lock is released
CheckCache(w) ==
    /\ call[w].pc = "check"
    /\ cache_lock' = [cache_lock EXCEPT ![scraperOf[w]] = "free"]
    /\ IF IsCachedFresh(funding_cache, call[w].symbol, call[w].now)
       THEN call' = [call EXCEPT ![w].pc = "returned",
                                 ![w].ret = funding_cache[call[w].symbol][1].rate]
       ELSE call' = [call EXCEPT ![w].pc = "fetch"]
    /\ UNCHANGED <<clock, funding_cache, scraperOf, calls>>
    /\ UNCHANGED notCacheVars

\* rate = self.exchange.get_funding_rate(symbol=symbol) * 100
FetchRate(w) ==
    /\ call[w].pc = "fetch"
    /\ \E r \in get_funding_rate(scraperOf[w]) :
          call' = [call EXCEPT ![w].pc = "lock2", ![w].rate = r * 100,
                               ![w].fetches = @ + 1]
    /\ UNCHANGED <<clock, funding_cache, cache_lock, scraperOf, calls>>
    /\ UNCHANGED notCacheVars

FetchRaises_StoresDefault(w) ==
    /\ call[w].pc = "fetch"
    /\ call' = [call EXCEPT ![w].pc = "raised", ![w].fetches = @ + 1]
    /\ funding_cache' = [funding_cache EXCEPT ![call[w].symbol] =
                            <<[fetched |-> call[w].now, rate |-> 0]>>]
    /\ UNCHANGED <<clock, cache_lock, scraperOf, calls>>
    /\ UNCHANGED notCacheVars

\* the exchange call raises
FetchRaises(w) ==
    /\ call[w].pc = "fetch"
    /\ call' = [call EXCEPT ![w].pc = "raised", ![w].fetches = @ + 1]
    /\ UNCHANGED <<clock, funding_cache, cache_lock, scraperOf, calls>>
    /\ UNCHANGED notCacheVars

\* with self.cache_lock: (the second one)
LockForStore(w) ==
    /\ call[w].pc = "lock2"
    /\ cache_lock[scraperOf[w]] = "free"
    /\ cache_lock' = [cache_lock EXCEPT ![scraperOf[w]] = w]
    /\ call' = [call EXCEPT ![w].pc = "store"]
    /\ UNCHANGED <<clock, funding_cache, scraperOf, calls>>
    /\ UNCHANGED notCacheVars

StoreRate_KeepExisting(w) ==
    /\ call[w].pc = "store"
    /\ funding_cache' =
          IF funding_cache[call[w].symbol] # <<>> THEN funding_cache
          ELSE [funding_cache EXCEPT ![call[w].symbol] =
                   <<[fetched |-> call[w].now, rate |-> call[w].rate]>>]
    /\ cache_lock' = [cache_lock EXCEPT ![scraperOf[w]] = "free"]
    /\ call' = [call EXCEPT ![w].pc = "returned", ![w].ret = call[w].rate]
    /\ UNCHANGED <<clock, scraperOf, calls>>
    /\ UNCHANGED notCacheVars

\* self.funding_cache[symbol] = (now, rate); the lock is released; return rate
StoreRate(w) ==
    /\ call[w].pc = "store"
    /\ funding_cache' = [funding_cache EXCEPT ![call[w].symbol] =
                            <<[fetched |-> call[w].now, rate |-> call[w].rate]>>]
    /\ cache_lock' = [cache_lock EXCEPT ![scraperOf[w]] = "free"]
    /\ call' = [call EXCEPT ![w].pc = "returned", ![w].ret = call[w].rate]
    /\ UNCHANGED <<clock, scraperOf, calls>>
    /\ UNCHANGED notCacheVars

\* an hour passes
Tick ==
    /\ clock < MaxClock
    /\ clock' = clock + 1
    /\ UNCHANGED <<funding_cache, cache_lock, scraperOf, call, calls>>
    /\ UNCHANGED notCacheVars

CacheIdle ==
    /\ clock = 0
    /\ funding_cache = [s \in CacheSymbols |-> <<>>]
    /\ cache_lock = [e \in Exchanges |-> "free"]
    /\ scraperOf = [w \in Workers |-> "bybit"]
    /\ call = [w \in Workers |-> NoCall]
    /\ calls = 0

\* the process has started: the cache is empty
InitCache ==
    /\ clock = 0
    /\ funding_cache = [s \in CacheSymbols |-> <<>>]
    /\ cache_lock = [e \in Exchanges |-> "free"]
    /\ scraperOf \in {f \in [Workers -> Exchanges] : f["w1"] = "bybit"}
    /\ call = [w \in Workers |-> NoCall]
    /\ calls = 0

\* calls made one after the other, by one worker
NextCacheSeq ==
    \/ \E s \in CacheSymbols : CallFundingAlone("w1", s)
    \/ \E w \in Workers : LockForCheck(w)
    \/ \E w \in Workers : CheckCache(w)
    \/ \E w \in Workers : FetchRate(w)
    \/ \E w \in Workers : FetchRaises(w)
    \/ \E w \in Workers : LockForStore(w)
    \/ \E w \in Workers : StoreRate(w)
    \/ Tick

\* a symbol both exchanges list, which the tasks of both loops ask for
SharedSymbol == "AAAUSDT"

\* calls made by the tasks of the pools of both loops, in any interleaving
NextCache ==
    \/ \E w \in Workers : CallFunding(w, SharedSymbol)
    \/ \E w \in Workers : LockForCheck(w)
    \/ \E w \in Workers : CheckCache(w)
    \/ \E w \in Workers : FetchRate(w)
    \/ \E w \in Workers : FetchRaises(w)
    \/ \E w \in Workers : LockForStore(w)
    \/ \E w \in Workers : StoreRate(w)
    \/ Tick

----------------------------------------------------------------------------
(* combine_and_save_rotator_data *)

\* a cell of the merged frame: <<v>> holds v, <<>> is NaN
NaN == <<>>

\* the columns of an analysis frame, Asset apart
ValueColumns == {"Price", "v1m", "v5m", "v30m", "v1h", "spread5m", "Funding", "Timestamp"}

\* volume_columns
volume_columns == <<"v1m", "v5m", "v30m", "v1h">>
VolumeSet == {volume_columns[k] : k \in DOMAIN volume_columns}

\* col.endswith(suffix)
EndsWith(col, suffix) ==
    /\ Len(col) >= Len(suffix)
    /\ SubSeq(col, Len(col) - Len(suffix) + 1, Len(col)) = suffix

\* col.replace(suffix, ''), for a col that ends with the suffix
RemoveSuffix(col, suffix) == SubSeq(col, 1, Len(col) - Len(suffix))

Keys(frame) == {frame[i].Asset : i \in DOMAIN frame}
RowFor(frame, key) == frame[CHOOSE i \in DOMAIN frame : frame[i].Asset = key]
Cell(frame, key, col) ==
    IF key \in Keys(frame) THEN <<RowFor(frame, key)[col]>> ELSE NaN

\* the keys of an outer join come out sorted
RECURSIVE SortedKeys(_, _)
SortedKeys(order, keys) ==
    IF order = <<>> THEN <<>>
    ELSE (IF Head(order) \in keys THEN <<Head(order)>> ELSE <<>>)
         \o SortedKeys(Tail(order), keys)

\* pd.merge(left, right, on="Asset", how="outer", suffixes=(lsuffix, rsuffix))
OuterMerge(left, right, lsuffix, rsuffix) ==
    LET keys == SortedKeys(Universe, Keys(left) \cup Keys(right))
        cols == {"index", "Asset"}
                \cup {c \o lsuffix : c \in ValueColumns}
                \cup {c \o rsuffix : c \in ValueColumns}
    IN [i \in DOMAIN keys |->
          [col \in cols |->
              IF col = "index" THEN i - 1
              ELSE IF col = "Asset" THEN keys[i]
              ELSE IF EndsWith(col, lsuffix)
                   THEN Cell(left, keys[i], RemoveSuffix(col, lsuffix))
                   ELSE Cell(right, keys[i], RemoveSuffix(col, rsuffix))]]

FillNa_Keep(cell, value) == cell

\* Series.fillna(value)
FillNa(cell, value) == IF cell = NaN THEN <<value>> ELSE cell

\* the sum of two cells is NaN when one of them is
AddCells(a, b) == IF a = NaN \/ b = NaN THEN NaN ELSE <<a[1] + b[1]>>

\* combined_data[col] = combined_data[col + '_bybit'].fillna(0)
\*                      + combined_data[col + '_binance'].fillna(0)
SumVolumes(frame) ==
    [i \in DOMAIN frame |->
        [col \in DOMAIN frame[i] \cup VolumeSet |->
            IF col \in VolumeSet
            THEN AddCells(FillNa(frame[i][col \o "_bybit"], 0),
                          FillNa(frame[i][col \o "_binance"], 0))
            ELSE frame[i][col]]]

\* combined_data.drop(columns=...)
DropColumns(frame, columns) ==
    [i \in DOMAIN frame |-> [col \in DOMAIN frame[i] \ columns |-> frame[i][col]]]

\* for col in columns: if col.endswith(suffix): frame[col.replace(suffix, '')] = frame[col]
CopySuffixed(frame, suffix) ==
    [i \in DOMAIN frame |->
        LET suffixed == {col \in DOMAIN frame[i] : EndsWith(col, suffix)}
            bases == {RemoveSuffix(col, suffix) : col \in suffixed}
        IN [col \in DOMAIN frame[i] \cup bases |->
              IF col \in bases THEN frame[i][col \o suffix] ELSE frame[i][col]]]

\* the frame combine_and_save_rotator_data saves
CombineRotatorData(binance, bybit) ==
    LET merged == OuterMerge(bybit, binance, "_bybit", "_binance")
        summed == SumVolumes(merged)
        trimmed == DropColumns(summed,
                       {c \o "_bybit" : c \in VolumeSet}
                       \cup {c \o "_binance" : c \in VolumeSet})
        first == CopySuffixed(trimmed, "_bybit")
        second == CopySuffixed(first, "_binance")
    IN DropColumns(second,
           {c \o "_bybit" : c \in ValueColumns}
           \cup {c \o "_binance" : c \in ValueColumns})

\* the rows an exchange's table may hold for a symbol, by a scale of its volumes
ExchangeRow(exchange, symbol, scale) ==
    IF exchange = "binance"
    THEN IF symbol = "AAAUSDT" THEN MkRow(0, symbol, 10, 7 * scale, 100 * scale, 2, -1, 1)
         ELSE IF symbol = "BBBUSDT" THEN MkRow(0, symbol, 20, 5 * scale, 30 * scale, 1, 1, 1)
         ELSE MkRow(0, symbol, 30, 2 * scale, 60 * scale, 4, 0, 1)
    ELSE IF symbol = "AAAUSDT" THEN MkRow(0, symbol, 11, 3 * scale, 50 * scale, 3, 2, 2)
         ELSE IF symbol = "BBBUSDT" THEN MkRow(0, symbol, 21, 4 * scale, 20 * scale, 5, -2, 2)
         ELSE MkRow(0, symbol, 31, 6 * scale, 40 * scale, 1, 1, 2)

RECURSIVE RowList(_, _, _)
RowList(exchange, order, pick) ==
    IF order = <<>> THEN <<>>
    ELSE (IF pick[Head(order)] = 0 THEN <<>>
          ELSE <<ExchangeRow(exchange, Head(order), pick[Head(order)])>>)
         \o RowList(exchange, Tail(order), pick)

\* the tables analyse_all_symbols may have returned for an exchange
ExchangeFrames(exchange) ==
    { SortValues(DataFrame(RowList(exchange, Universe, pick)), <<"v1m", "spread5m">>) :
        pick \in [SymbolSet -> {0, 1, 2}] }

\* the call: merge, sum, copy, drop, and save inside try/except
Combine ==
    /\ mergePc = "called"
    /\ combined_data' = CombineRotatorData(data_binance, data_bybit)
    /\ \E saved \in BOOLEAN :
          combined_file' = IF saved THEN Complete(ToJson(combined_data'))
                           ELSE Truncated
    /\ mergePc' = "done"
    /\ UNCHANGED <<data_binance, data_bybit>>
    /\ UNCHANGED notMergeVars

MergeIdle ==
    /\ data_binance = <<>>
    /\ data_bybit = <<>>
    /\ combined_data = <<>>
    /\ combined_file = NoFile
    /\ mergePc = "idle"

InitMerge ==
    /\ data_binance \in ExchangeFrames("binance")
    /\ data_bybit \in ExchangeFrames("bybit")
    /\ combined_data = <<>>
    /\ combined_file = NoFile
    /\ mergePc = "called"

NextMerge == Combine

----------------------------------------------------------------------------
(* filter_df on its own *)

\* a row of the frame filter_df is given, by the choice made for its symbol
FilterRow(symbol, choice) ==
    IF symbol = "AAAUSDT" THEN MkRow(0, symbol, 1, 300, 15000 + choice, 3, choice, 1)
    ELSE IF symbol = "BBBUSDT" THEN MkRow(0, symbol, 1, 200, 15000 - choice, 2, choice, 1)
    ELSE MkRow(0, symbol, 1, 100, 15000 + choice, 1, 0 - choice, 1)

RECURSIVE FilterRowList(_, _)
FilterRowList(order, pick) ==
    IF order = <<>> THEN <<>>
    ELSE (IF pick[Head(order)] = 2 THEN <<>>
          ELSE <<FilterRow(Head(order), pick[Head(order)])>>)
         \o FilterRowList(Tail(order), pick)

FilterFrames ==
    { SortValues(DataFrame(FilterRowList(Universe, pick)), <<"v1m", "spread5m">>) :
        pick \in [SymbolSet -> {-1, 0, 1, 2}] }

\* the column labels of an analysis frame
FrameColumns == {"Asset"} \cup ValueColumns

\* dataframe[filter_col] raises KeyError for a label that is no column; it is
\* evaluated in the branch of a supported operator only
FilterDfRaises(filter_col, operator) ==
    operator \in {">", "<", "=="} /\ filter_col \notin FrameColumns

\* result = scraper.filter_df(dataframe, filter_col, operator, value): the
\* call returns and result is bound, or it raises and result stays as it was
CallFilterDf(filter_col, operator, value) ==
    /\ filterPc \in {"ready", "done", "raised"}
    /\ filterArgs' = [col |-> filter_col, op |-> operator, value |-> value]
    /\ IF FilterDfRaises(filter_col, operator)
       THEN /\ filterPc' = "raised"
            /\ UNCHANGED filtered
       ELSE /\ filtered' = FilterDf(dataframe0, filter_col, operator, value)
            /\ filterPc' = "done"
    /\ UNCHANGED dataframe0
    /\ UNCHANGED notFilterVars

NoArgs == [col |-> "", op |-> "", value |-> 0]

FilterIdle ==
    /\ dataframe0 = <<>>
    /\ filterArgs = NoArgs
    /\ filtered = [none |-> TRUE, rows |-> <<>>]
    /\ filterPc = "idle"

InitFilter ==
    /\ dataframe0 \in FilterFrames
    /\ filterArgs = NoArgs
    /\ filtered = [none |-> TRUE, rows |-> <<>>]
    /\ filterPc = "ready"

NextFilter ==
    \E filter_col \in {"Funding", "v5m", "Volume"}, operator \in {">", "<", "==", "!="},
       value \in {0, 15000} :
        CallFilterDf(filter_col, operator, value)

----------------------------------------------------------------------------
(* get_all_historical_volume *)

\* ThreadPoolExecutor(max_workers=20)
HistMaxWorkers == 20

\* the volumes of the bars the exchange holds for a symbol, oldest first
BarVolumes(symbol) ==
    IF symbol = "AAAUSDT" THEN <<5, 3, 8>>
    ELSE IF symbol = "BBBUSDT" THEN <<2, 9>>
    ELSE <<>>

\* exchange.get_futures_kline of bybit: one candle per bar
BybitKline(symbol) ==
    [i \in DOMAIN BarVolumes(symbol) |->
        [open |-> 1, high |-> 2, low |-> 1, close |-> 1,
         volume |-> BarVolumes(symbol)[i]]]

\* /fapi/v1/klines of binance: one list per bar, the volume at index 5
BinanceKline(symbol) ==
    [i \in DOMAIN BarVolumes(symbol) |-> <<i, 1, 2, 1, 1, BarVolumes(symbol)[i]>>]

\* return symbol, [candle["volume"] for candle in data]
get_historical_volume_bybit(symbol) ==
    LET candles == BybitKline(symbol)
    IN [symbol |-> symbol,
        volume |-> [i \in DOMAIN candles |-> candles[i].volume]]

\* return symbol, [entry[5] for entry in raw_json]
get_historical_volume_binance(symbol) ==
    LET raw_json == BinanceKline(symbol)
    IN [symbol |-> symbol,
        volume |-> [i \in DOMAIN raw_json |-> raw_json[i][5 + 1]]]

HistQueued == [state |-> "queued", fetches |-> 0, result |-> <<>>]
HistRunning == {s \in SymbolSet : histTask[s].state = "running"}
HistFinished(s) == histTask[s].state \in {"returned", "raised"}
HistSubmitted == {histSymbols[i] : i \in DOMAIN histSymbols}

HistFanIn_Catch(map, t) ==
    IF t.state = "returned"
    THEN [all_volume |-> [map EXCEPT ![t.result[1].symbol] = <<t.result[1].volume>>],
          raised |-> FALSE]
    ELSE [all_volume |-> map, raised |-> FALSE]

\* the body of the as_completed loop: symbol, volume = future.result();
\* all_volume[symbol] = volume, with nothing to catch what result() raises
HistFanIn(map, t) ==
    IF t.state = "returned"
    THEN [all_volume |-> [map EXCEPT ![t.result[1].symbol] = <<t.result[1].volume>>],
          raised |-> FALSE]
    ELSE [all_volume |-> map, raised |-> TRUE]

\* a worker of the executor takes the oldest queued fetch; the executor goes
\* on doing so while an exception unwinds the with block
HistStart(i) ==
    /\ histPc \in {"collect", "unwinding"}
    /\ i \in DOMAIN histSymbols
    /\ histTask[histSymbols[i]].state = "queued"
    /\ \A j \in 1..(i - 1) : histTask[histSymbols[j]].state # "queued"
    /\ Cardinality(HistRunning) < HistMaxWorkers
    /\ histTask' = [histTask EXCEPT ![histSymbols[i]].state = "running"]
    /\ UNCHANGED <<histExchange, histSymbols, klineFails, histSeen, all_volume,
                   histPc, histResult>>
    /\ UNCHANGED notHistVars

\* get_historical_volume_bybit or _binance runs: one kline fetch
HistFetch(s) ==
    /\ histPc \in {"collect", "unwinding"}
    /\ histTask[s].state = "running"
    /\ histTask' = [histTask EXCEPT ![s] =
          IF klineFails[s]
          THEN [state |-> "raised", fetches |-> @.fetches + 1, result |-> <<>>]
          ELSE [state |-> "returned", fetches |-> @.fetches + 1,
                result |-> <<IF histExchange = "bybit"
                             THEN get_historical_volume_bybit(s)
                             ELSE get_historical_volume_binance(s)>>]]
    /\ UNCHANGED <<histExchange, histSymbols, klineFails, histSeen, all_volume,
                   histPc, histResult>>
    /\ UNCHANGED notHistVars

\* as_completed yields a finished future
HistCollect(s) ==
    /\ histPc = "collect"
    /\ s \in HistSubmitted /\ HistFinished(s) /\ s \notin histSeen
    /\ histSeen' = histSeen \cup {s}
    /\ all_volume' = HistFanIn(all_volume, histTask[s]).all_volume
    /\ histPc' = IF HistFanIn(all_volume, histTask[s]).raised THEN "unwinding" ELSE histPc
    /\ UNCHANGED <<histExchange, histSymbols, klineFails, histTask, histResult>>
    /\ UNCHANGED notHistVars

\* the exception leaves the with block: executor.shutdown(wait=True) has
\* waited for every submitted fetch, and the call raises
HistRaise ==
    /\ histPc = "unwinding"
    /\ \A s \in HistSubmitted : HistFinished(s)
    /\ histPc' = "raised"
    /\ UNCHANGED <<histExchange, histSymbols, klineFails, histTask, histSeen,
                   all_volume, histResult>>
    /\ UNCHANGED notHistVars

\* every future was yielded: return all_volume
HistReturn ==
    /\ histPc = "collect"
    /\ histSeen = HistSubmitted
    /\ histResult' = <<all_volume>>
    /\ histPc' = "returned"
    /\ UNCHANGED <<histExchange, histSymbols, klineFails, histTask, histSeen,
                   all_volume>>
    /\ UNCHANGED notHistVars

HistIdle ==
    /\ histExchange = "bybit"
    /\ histSymbols = <<>>
    /\ klineFails = [s \in SymbolSet |-> FALSE]
    /\ histTask = [s \in SymbolSet |-> HistQueued]
    /\ histSeen = {}
    /\ all_volume = [s \in SymbolSet |-> <<>>]
    /\ histPc = "idle"
    /\ histResult = <<>>

\* get_all_historical_volume was called and has submitted one fetch per symbol
InitHist ==
    /\ histExchange \in Exchanges
    /\ histSymbols \in {Universe, <<"CCCUSDT", "AAAUSDT">>}
    /\ klineFails \in [SymbolSet -> BOOLEAN]
    /\ histTask = [s \in SymbolSet |-> HistQueued]
    /\ histSeen = {}
    /\ all_volume = [s \in SymbolSet |-> <<>>]
    /\ histPc = "collect"
    /\ histResult = <<>>

NextHist ==
    \/ \E i \in DOMAIN Universe : HistStart(i)
    \/ \E s \in SymbolSet : HistFetch(s)
    \/ \E s \in SymbolSet : HistCollect(s)
    \/ HistRaise
    \/ HistReturn

----------------------------------------------------------------------------
(* filter_quote *)

QuoteMatches_Anywhere(symbol, quote_list) ==
    \E k \in DOMAIN quote_list : \E i \in 0..(Len(symbol) - Len(quote_list[k])) :
        SubSeq(symbol, i + 1, i + Len(quote_list[k])) = quote_list[k]

\* symbol.endswith(tuple(quotes)): the symbol ends with one of the quotes
QuoteMatches(symbol, quote_list) ==
    \E k \in DOMAIN quote_list : EndsWith(symbol, quote_list[k])

\* CombinedScraper.filter_quote: the loop that appends the matching symbols
RECURSIVE FilterQuote(_, _)
FilterQuote(symbol_list, quote_list) ==
    IF symbol_list = <<>> THEN <<>>
    ELSE (IF QuoteMatches(Head(symbol_list), quote_list)
          THEN <<Head(symbol_list)>> ELSE <<>>)
         \o FilterQuote(Tail(symbol_list), quote_list)

\* names the exchange may list, and the quote lists a caller may configure
ListedSymbols == {"BTCUSDT", "ETHBUSD", "SOLUSDT", "USDTBUSD", "BTCUSD"}
QuoteLists == {<<"USDT">>, <<"USDT", "BUSD">>, <<"USD">>, <<>>}

\* self.filter_quote(symbols=self.symbols, quotes=...)
CallFilterQuote(quote_list) ==
    /\ quotePc \in {"ready", "done"}
    /\ quotes' = quote_list
    /\ quoteFiltered' = FilterQuote(quoteSymbols, quote_list)
    /\ quotePc' = "done"
    /\ UNCHANGED quoteSymbols
    /\ UNCHANGED notQuoteVars

QuoteIdle ==
    /\ quoteSymbols = <<>>
    /\ quotes = <<>>
    /\ quoteFiltered = <<>>
    /\ quotePc = "idle"

\* the exchange has listed up to three symbols
InitQuote ==
    /\ quoteSymbols \in UNION {[1..n -> ListedSymbols] : n \in 0..3}
    /\ quotes = <<>>
    /\ quoteFiltered = <<>>
    /\ quotePc = "ready"

NextQuote == \E quote_list \in QuoteLists : CallFilterQuote(quote_list)

----------------------------------------------------------------------------
(* filter_volume *)

\* x goes before y when sorted(..., key=lambda x: x[1], reverse=True) meets
\* them in this order: sorted is stable, also with reverse=True
InsertItem_BeforeEqual(sorted, x) ==
    LET RECURSIVE Ins(_)
        Ins(list) ==
            IF list = <<>> THEN <<x>>
            ELSE IF x.volume >= Head(list).volume THEN <<x>> \o list
            ELSE <<Head(list)>> \o Ins(Tail(list))
    IN Ins(sorted)

\* put x into an already sorted list, behind every item of the same or a
\* greater volume
InsertItem(sorted, x) ==
    LET RECURSIVE Ins(_)
        Ins(list) ==
            IF list = <<>> THEN <<x>>
            ELSE IF x.volume > Head(list).volume THEN <<x>> \o list
            ELSE <<Head(list)>> \o Ins(Tail(list))
    IN Ins(sorted)

\* sorted(volumes.items(), key=lambda x: x[1], reverse=True)
RECURSIVE SortedItems(_)
SortedItems(items) ==
    IF items = <<>> THEN <<>>
    ELSE InsertItem(SortedItems(SubSeq(items, 1, Len(items) - 1)), items[Len(items)])

\* volumes[:limit], for a limit that is not negative
FirstItems(items, limit) ==
    SubSeq(items, 1, IF limit < Len(items) THEN limit ELSE Len(items))

\* [*dict(volumes)]: the keys of the items that were kept
VolumeKeys(items) == {items[i].symbol : i \in DOMAIN items}

\* CombinedScraper.filter_volume
FilterVolume(symbol_list, items, limit) ==
    LET volume_keys == VolumeKeys(FirstItems(SortedItems(items), limit))
        RECURSIVE Keep(_)
        Keep(list) ==
            IF list = <<>> THEN <<>>
            ELSE (IF Head(list) \in volume_keys THEN <<Head(list)>> ELSE <<>>)
                 \o Keep(Tail(list))
    IN Keep(symbol_list)

\* sequences without repetition over a set
DistinctSeqs(S, n) ==
    {q \in [1..n -> S] : \A i, j \in 1..n : i # j => q[i] # q[j]}

\* the symbols with a 24h volume, and the symbols left after the quote filter:
\* CCCBUSD has a volume and is not among them, DDDUSDT is and has no volume
VolumeSymbols == {"AAAUSDT", "BBBUSDT", "CCCBUSD"}
QuoteFilteredSymbols == {"BBBUSDT", "AAAUSDT", "DDDUSDT"}
DayVolumes == {10, 20}

\* self.filter_volume(symbols=self.symbols, volumes=self.volumes, limit=...)
CallFilterVolume(limit) ==
    /\ volPc \in {"ready", "done"}
    /\ volLimit' = limit
    /\ volFiltered' = FilterVolume(volSymbols, volumes, limit)
    /\ volPc' = "done"
    /\ UNCHANGED <<volSymbols, volumes>>
    /\ UNCHANGED notVolVars

VolIdle ==
    /\ volSymbols = <<>>
    /\ volumes = <<>>
    /\ volLimit = 0
    /\ volFiltered = <<>>
    /\ volPc = "idle"

\* get_futures_volumes answered with a volume for each of three symbols, in
\* any order; up to three symbols are left after the quote filter
InitVol ==
    /\ volSymbols \in UNION {DistinctSeqs(QuoteFilteredSymbols, n) : n \in 0..3}
    /\ \E keys \in DistinctSeqs(VolumeSymbols, 3) :
       \E v \in [VolumeSymbols -> DayVolumes] :
          volumes = [i \in 1..3 |-> [symbol |-> keys[i], volume |-> v[keys[i]]]]
    /\ volLimit = 0
    /\ volFiltered = <<>>
    /\ volPc = "ready"

NextVol == \E limit \in 0..MaxLimit : CallFilterVolume(limit)

----------------------------------------------------------------------------
(* get_mfi *)

\* a column value that is NaN is <<>>, a number v is <<v>>; a comparison
\* with NaN is False
Below(x, c) == x # <<>> /\ x[1] < c
Above(x, c) == x # <<>> /\ x[1] > c

\* df['open_less_close'] = (df['open'] < df['close']).astype(int)
OpenLessClose(bar) == IF bar.open < bar.close THEN 1 ELSE 0

\* df['buy_condition'] and df['sell_condition']
BuyCondition(bar) == Below(bar.mfi, 20) /\ Below(bar.rsi, 35) /\ OpenLessClose(bar) = 1
SellCondition(bar) == Above(bar.mfi, 80) /\ Above(bar.rsi, 65) /\ OpenLessClose(bar) = 0

\* df.iloc[-lookback:]: the slice starts at len - lookback, at 0 when lookback
\* exceeds the length, and -0 is 0, the start of the frame
LastRows(frame, lookback) ==
    LET start == IF lookback = 0 THEN 0
                 ELSE IF lookback >= Len(frame) THEN 0
                 ELSE Len(frame) - lookback
    IN SubSeq(frame, start + 1, Len(frame))

\* for buy, sell in reversed(last_conditions): the first bar from the end
\* with a condition decides
RECURSIVE ScanBack(_)
ScanBack(rows) ==
    IF rows = <<>> THEN "neutral"
    ELSE IF BuyCondition(rows[Len(rows)]) THEN "long"
    ELSE IF SellCondition(rows[Len(rows)]) THEN "short"
    ELSE ScanBack(SubSeq(rows, 1, Len(rows) - 1))

\* CombinedScraper.get_mfi, from the frame with its indicator columns on
GetMfi(frame, lookback) == ScanBack(LastRows(frame, lookback))

\* bars as the indicators see them: oversold and rising, overbought and
\* falling, oversold and falling, overbought and unchanged, at the thresholds,
\* and a bar of the warm-up of the 14-bar windows
BarKinds ==
    { [mfi |-> <<10>>, rsi |-> <<30>>, open |-> 1, close |-> 2],
      [mfi |-> <<90>>, rsi |-> <<70>>, open |-> 2, close |-> 1],
      [mfi |-> <<10>>, rsi |-> <<30>>, open |-> 2, close |-> 1],
      [mfi |-> <<90>>, rsi |-> <<70>>, open |-> 2, close |-> 2],
      [mfi |-> <<20>>, rsi |-> <<35>>, open |-> 1, close |-> 2],
      [mfi |-> <<>>, rsi |-> <<>>, open |-> 1, close |-> 2] }

\* self.get_mfi(symbol=symbol, interval=..., limit=..., lookback=lookback)
CallGetMfi(lookback) ==
    /\ mfiPc \in {"ready", "done"}
    /\ mfiLookback' = lookback
    /\ mfiVerdict' = GetMfi(mfiBars, lookback)
    /\ mfiPc' = "done"
    /\ UNCHANGED mfiBars
    /\ UNCHANGED notMfiVars

MfiIdle ==
    /\ mfiBars = <<>>
    /\ mfiLookback = 0
    /\ mfiVerdict = "neutral"
    /\ mfiPc = "idle"

\* get_futures_kline answered with up to MaxBars bars, oldest first
InitMfi ==
    /\ mfiBars \in UNION {[1..n -> BarKinds] : n \in 0..MaxBars}
    /\ mfiLookback = 0
    /\ mfiVerdict = "neutral"
    /\ mfiPc = "ready"

NextMfi == \E lookback \in 0..(MaxBars + 1) : CallGetMfi(lookback)

----------------------------------------------------------------------------
(* The executors of analyse_all_symbols and get_all_historical_volume, with
   the tasks counted and not named, for universes wider than the pool *)

\* def analyse_all_symbols(self, max_workers: int = 20, ...)
DefaultMaxWorkers == 20

FanMethods == {"analyse_all_symbols", "get_all_historical_volume"}

\* ThreadPoolExecutor(max_workers=max_workers), ThreadPoolExecutor(max_workers=20)
MaxWorkersOf(method) ==
    IF method = "analyse_all_symbols" THEN {1, 2, DefaultMaxWorkers}
    ELSE {HistMaxWorkers}

FanStart_NoCap ==
    /\ fanCall # "" /\ fanQueued > 0
    /\ fanQueued' = fanQueued - 1
    /\ fanRunning' = fanRunning + 1
    /\ UNCHANGED <<fanCall, fanWorkers, fanSubmitted, fanFinished>>
    /\ UNCHANGED notFanVars

\* a worker thread of the executor takes a queued task: the executor has at
\* most max_workers threads, each executing one task at a time
FanStart ==
    /\ fanCall # "" /\ fanQueued > 0
    /\ fanRunning < fanWorkers
    /\ fanQueued' = fanQueued - 1
    /\ fanRunning' = fanRunning + 1
    /\ UNCHANGED <<fanCall, fanWorkers, fanSubmitted, fanFinished>>
    /\ UNCHANGED notFanVars

\* a task returns or raises and its worker is free again
FanFinish ==
    /\ fanCall # "" /\ fanRunning > 0
    /\ fanRunning' = fanRunning - 1
    /\ fanFinished' = fanFinished + 1
    /\ UNCHANGED <<fanCall, fanWorkers, fanSubmitted, fanQueued>>
    /\ UNCHANGED notFanVars

FanIdle ==
    /\ fanCall = ""
    /\ fanWorkers = 0
    /\ fanSubmitted = 0
    /\ fanQueued = 0
    /\ fanRunning = 0
    /\ fanFinished = 0

\* the method has submitted one task for each symbol of self.symbols, three
\* of them or WideUniverse
InitFan ==
    /\ fanCall \in FanMethods
    /\ fanWorkers \in MaxWorkersOf(fanCall)
    /\ fanSubmitted \in {Len(Universe), WideUniverse}
    /\ fanQueued = fanSubmitted
    /\ fanRunning = 0
    /\ fanFinished = 0

NextFan == FanStart \/ FanFinish

----------------------------------------------------------------------------
(* Specifications *)

\* the scraper loop of one exchange
Init ==
    /\ InitLoop /\ PoolIdle /\ CacheIdle /\ MergeIdle /\ FilterIdle
    /\ QuoteIdle /\ HistIdle /\ VolIdle /\ MfiIdle /\ FanIdle
Next == NextLoop
Spec == Init /\ [][Next]_vars
SpecLoop == Spec

\* one loop whose thread is scheduled fairly and whose calls all return or
\* raise, so that a statement that can be taken is taken; the loops of other
\* processes come and go as they please
InitSpecLoopFair ==
    /\ InitLoopFair /\ PoolIdle /\ CacheIdle /\ MergeIdle /\ FilterIdle
    /\ QuoteIdle /\ HistIdle /\ VolIdle /\ MfiIdle /\ FanIdle
SpecLoopFair ==
    /\ InitSpecLoopFair /\ [][NextLoopFair]_vars
    /\ \A e \in Exchanges : WF_vars(LoopStep(e))

\* the loops of both exchanges side by side, one iteration each
InitSpecTwoLoops ==
    /\ InitTwoLoops /\ PoolIdle /\ CacheIdle /\ MergeIdle /\ FilterIdle
    /\ QuoteIdle /\ HistIdle /\ VolIdle /\ MfiIdle /\ FanIdle
SpecTwoLoops == InitSpecTwoLoops /\ [][NextTwoLoops]_vars

\* one call of analyse_all_symbols
InitSpecPool ==
    /\ InitPool /\ LoopIdle /\ CacheIdle /\ MergeIdle /\ FilterIdle
    /\ QuoteIdle /\ HistIdle /\ VolIdle /\ MfiIdle /\ FanIdle
SpecPool == InitSpecPool /\ [][NextPool]_vars

\* calls of get_cached_funding one after the other
InitSpecCache ==
    /\ InitCache /\ LoopIdle /\ PoolIdle /\ MergeIdle /\ FilterIdle
    /\ QuoteIdle /\ HistIdle /\ VolIdle /\ MfiIdle /\ FanIdle
SpecCacheSeq == InitSpecCache /\ [][NextCacheSeq]_vars

\* calls of get_cached_funding by concurrent tasks
SpecCache == InitSpecCache /\ [][NextCache]_vars

\* one call of combine_and_save_rotator_data
InitSpecMerge ==
    /\ InitMerge /\ LoopIdle /\ PoolIdle /\ CacheIdle /\ FilterIdle
    /\ QuoteIdle /\ HistIdle /\ VolIdle /\ MfiIdle /\ FanIdle
SpecMerge == InitSpecMerge /\ [][NextMerge]_vars

\* calls of filter_df on one frame
InitSpecFilter ==
    /\ InitFilter /\ LoopIdle /\ PoolIdle /\ CacheIdle /\ MergeIdle
    /\ QuoteIdle /\ HistIdle /\ VolIdle /\ MfiIdle /\ FanIdle
SpecFilter == InitSpecFilter /\ [][NextFilter]_vars

\* calls of filter_quote on one list of symbols
InitSpecQuote ==
    /\ InitQuote /\ LoopIdle /\ PoolIdle /\ CacheIdle /\ MergeIdle /\ FilterIdle
    /\ HistIdle /\ VolIdle /\ MfiIdle /\ FanIdle
SpecQuote == InitSpecQuote /\ [][NextQuote]_vars

\* one call of get_all_historical_volume
InitSpecHist ==
    /\ InitHist /\ LoopIdle /\ PoolIdle /\ CacheIdle /\ MergeIdle /\ FilterIdle
    /\ QuoteIdle /\ VolIdle /\ MfiIdle /\ FanIdle
SpecHist == InitSpecHist /\ [][NextHist]_vars

\* calls of filter_volume on one list of symbols and one volume map
InitSpecVol ==
    /\ InitVol /\ LoopIdle /\ PoolIdle /\ CacheIdle /\ MergeIdle /\ FilterIdle
    /\ QuoteIdle /\ HistIdle /\ MfiIdle /\ FanIdle
SpecVol == InitSpecVol /\ [][NextVol]_vars

\* calls of get_mfi on one series of bars
InitSpecMfi ==
    /\ InitMfi /\ LoopIdle /\ PoolIdle /\ CacheIdle /\ MergeIdle /\ FilterIdle
    /\ QuoteIdle /\ HistIdle /\ VolIdle /\ FanIdle
SpecMfi == InitSpecMfi /\ [][NextMfi]_vars

\* one fan-out over a universe, small or wider than the pool; a worker thread
\* that is free takes a queued task, and a task that runs comes to its end
InitSpecFan ==
    /\ InitFan /\ LoopIdle /\ PoolIdle /\ CacheIdle /\ MergeIdle /\ FilterIdle
    /\ QuoteIdle /\ HistIdle /\ VolIdle /\ MfiIdle
SpecFan ==
    /\ InitSpecFan /\ [][NextFan]_vars
    /\ WF_vars(FanStart) /\ WF_vars(FanFinish)

----------------------------------------------------------------------------
(* Claims about the analysis pool, checked under SpecPool *)

\* the symbols whose analysis fails on every attempt that is made
FailingSymbols == {s \in SymbolSet : failsBefore[s] >= retry_limit}
RowsOf(frame, s) == {i \in DOMAIN frame : frame[i].Asset = s}

\* C3: analyse_all_symbols returns without raising, with exactly one row for
\* every symbol that does not fail on every attempt and no row for a symbol
\* that does: N - |F| rows, whatever the siblings did.
C3_FailureIsolation ==
    /\ poolPc # "raised"
    /\ poolPc = "done" =>
          /\ \A s \in SymbolSet :
                Cardinality(RowsOf(poolDf, s)) = IF s \in FailingSymbols THEN 0 ELSE 1
          /\ Len(poolDf) = Len(symbols) - Cardinality(FailingSymbols)

\* exactly one symbol fails for good and the table has N - 1 rows
C3_Witness ==
    /\ poolPc = "done"
    /\ retry_limit > 0
    /\ Cardinality(FailingSymbols) = 1
    /\ Len(poolDf) = Len(symbols) - 1

\* C4: a symbol whose analysis fails on attempts 1..k-1 and succeeds on
\* attempt k <= retry_limit is in the returned table with the record of
\* attempt k, and no exception reaches the caller.
C4_RetryTolerance ==
    /\ poolPc # "raised"
    /\ poolPc = "done" =>
          \A s \in SymbolSet :
              failsBefore[s] + 1 <= retry_limit =>
                  /\ Cardinality(RowsOf(poolDf, s)) = 1
                  /\ \A i \in RowsOf(poolDf, s) :
                        poolDf[i].Timestamp = failsBefore[s] + 1

\* two failures, then the third attempt succeeded and its record is in the table
C4_Witness ==
    /\ poolPc = "done"
    /\ retry_limit >= 3
    /\ \E s \in SymbolSet :
          /\ failsBefore[s] = 2
          /\ \E i \in DOMAIN poolDf : poolDf[i].Asset = s /\ poolDf[i].Timestamp = 3

\* C11: the table analyse_all_symbols returns is ordered by 1-minute volume
\* descending and, among rows of equal 1-minute volume, by 5-minute spread
\* descending: of two adjacent rows the first has the greater volume, or the
\* same volume and a spread that is not smaller.
C11_SortedByVolumeThenSpread ==
    poolPc = "done" =>
        \A i \in 1..(Len(poolDf) - 1) :
            \/ poolDf[i].v1m > poolDf[i + 1].v1m
            \/ /\ poolDf[i].v1m = poolDf[i + 1].v1m
               /\ poolDf[i].spread5m >= poolDf[i + 1].spread5m

\* three rows came back, two of equal volume collected with the smaller
\* spread first, and one of a greater volume collected after a smaller one
C11_Witness ==
    /\ poolPc = "done"
    /\ Len(poolDf) = 3
    /\ \E i, j \in DOMAIN data :
          i < j /\ data[i].v1m = data[j].v1m /\ data[i].spread5m < data[j].spread5m
    /\ \E i, j \in DOMAIN data : i < j /\ data[i].v1m < data[j].v1m

\* C19: retry_analyse_symbol calls analyse_symbol at most retry_limit times
\* for a symbol; it returns at the first attempt that succeeds and makes no
\* further one; a symbol whose every attempt fails is attempted exactly
\* retry_limit times, with a one-second pause after each failed attempt and
\* so between any two consecutive attempts, and its call then raises (with
\* retry_limit = 0 no attempt is made and the call raises); the failed symbol
\* has no row in the collected data.
C19_BoundedAttempts ==
    \A s \in SymbolSet :
        /\ task[s].attempts <= retry_limit
        /\ task[s].attempts <= failsBefore[s] + 1
        /\ task[s].attempts > 0 => task[s].slept >= task[s].attempts - 1
        /\ task[s].state = "returned" =>
              /\ task[s].attempts = failsBefore[s] + 1
              /\ task[s].result[1].Timestamp = task[s].attempts
        /\ task[s].state = "raised" =>
              /\ task[s].attempts = retry_limit
              /\ failsBefore[s] >= retry_limit
              /\ task[s].slept = retry_limit
              /\ \A i \in DOMAIN data : data[i].Asset # s

\* one symbol was given up after three failed attempts, another returned at
\* its second attempt
C19_Witness ==
    /\ retry_limit = 3
    /\ \E s \in SymbolSet : task[s].state = "raised" /\ task[s].attempts = 3
    /\ \E s \in SymbolSet : task[s].state = "returned" /\ task[s].attempts = 2
    /\ poolPc = "done"

\* C23: the fan-in of analyse_all_symbols is a barrier without a timeout:
\* while a submitted task has not terminated (returned, or raised after its
\* retries) the call cannot go on to sort and return, and nothing has been
\* sorted; when the table is returned every task has terminated and was
\* collected, so none is running when the cycle publishes.
C23_FanInBarrier ==
    /\ (\E s \in SymbolSet : ~Finished(s)) =>
          /\ ~ENABLED Return
          /\ poolPc = "collect"
          /\ poolDf = <<>>
    /\ poolPc = "done" =>
          /\ \A s \in SymbolSet : Finished(s) /\ s \in seen
          /\ RunningTasks = {}

\* the call waits for its last task: the others were collected, one still runs
C23_Witness ==
    /\ poolPc = "collect"
    /\ \E s \in SymbolSet :
          /\ task[s].state = "running" /\ task[s].attempts > 0
          /\ seen = SymbolSet \ {s}

\* the rows of the per-symbol results, had the tasks completed in the order
\* of the universe
ResultsInUniverseOrder ==
    LET Rows(list) == [i \in DOMAIN list |-> task[list[i]].result[1]]
        RECURSIVE Returned(_)
        Returned(list) ==
            IF list = <<>> THEN <<>>
            ELSE (IF task[Head(list)].state = "returned" THEN <<Head(list)>> ELSE <<>>)
                 \o Returned(Tail(list))
    IN Rows(Returned(symbols))

\* C24: the row order of the returned table does not depend on the order in
\* which the tasks completed, rows equal on both sort keys included: the
\* table is the one the same results give when they complete in the order of
\* the universe.
C24_DeterministicOrder ==
    poolPc = "done" =>
        ToJson(poolDf)
            = ToJson(SortValues(DataFrame(ResultsInUniverseOrder),
                                <<"v1m", "spread5m">>))

----------------------------------------------------------------------------
(* Claims about the scraper loop, checked under SpecLoop *)

\* C1: every artifact of a cycle is written to a temp path and renamed over
\* its destination, so whoever reads a destination path at any moment, also
\* while the writer is mid-write or has been stopped, finds a complete
\* snapshot and never a partial file.
C1_ReaderNeverSeesPartial ==
    \A e \in Exchanges : \A p \in DestPaths(e) : file[p].exists /\ file[p].full

\* C2: while the primary table's temp file is being written or waits for its
\* rename (the process may be stopped there), the destination holds exactly
\* what it held before; once the rename is done the destination holds exactly
\* the serialization of the table that was published.
C2_PublishPrimary ==
    \A e \in Exchanges :
        pc[e].at = "run" =>
            LET i == pc[e].i
                steps == CycleSteps(e)
                dest == main_path_quant(e)
            IN /\ (steps[i].to = dest /\ steps[i].op \in {"write", "rename"})
                    => file[dest] = fileAtStart[e][dest]
               /\ (i > 1 /\ steps[i - 1].to = dest /\ steps[i - 1].op = "rename")
                    => file[dest] = Complete(ToJson(df[e]))

\* a process stopped between the temp write and the rename of a second cycle
C2_Witness ==
    \E e \in Exchanges :
        /\ ~alive[e] /\ pc[e].at = "run"
        /\ CycleSteps(e)[pc[e].i].op = "rename"
        /\ CycleSteps(e)[pc[e].i].to = main_path_quant(e)
        /\ file[temp_path_quant(e)].full
        /\ file[main_path_quant(e)].full
        /\ file[main_path_quant(e)] # EarlierSnapshot

\* C6: a statement of the running cycle that raises does not end the loop:
\* the iteration goes to Sleeping, and what follows Sleeping is the next
\* attempt at the lock.
C6_ExceptionKeepsLoop ==
    [][\A e \in Exchanges :
          /\ ( /\ pc[e].at = "run" /\ alive[e]
               /\ CycleSteps(e)[pc[e].i].op # "exit"
               /\ pc'[e] # pc[e]
               /\ ~(pc'[e].at = "run" /\ pc'[e].i = pc[e].i + 1) )
             => (pc'[e] = At("sleeping") /\ alive'[e])
          /\ (pc[e].at = "sleeping" /\ pc'[e] # pc[e])
             => pc'[e] = At("acquire")]_vars

\* an iteration ended by an exception was followed by one that took the lock
C6_Witness ==
    \E e \in Exchanges :
        outcome[e] = "error" /\ pc[e].at = "run" /\ lockHolder[e] = "loop"

\* C7: an iteration that found the lock held does no cycle work: no fetch, no
\* analysis task, no artifact write; it is in Sleeping, or past it at the next
\* attempt.
C7_SkippedIterationDoesNothing ==
    \A e \in Exchanges :
        contended[e] =>
            /\ work[e] = {}
            /\ pc[e].at \in {"sleeping", "acquire"}

\* the loop skipped an iteration and is back at the lock
C7_Witness ==
    \E e \in Exchanges :
        contended[e] /\ outcome[e] = "skipped" /\ pc[e].at = "acquire" /\ alive[e]

\* the text a cycle is to put into the artifact of a view
ExpectedJson(e, view) ==
    IF view = "total_historical_volume" THEN CycleVolume(iter[e])
    ELSE ViewJson(e, view)

\* C13: the writes of a cycle are independent: when the write of one
\* artifact fails (its open, its write or its rename raises), every other
\* artifact of that cycle has, at the end of the iteration, the new snapshot
\* of its view, complete.
C13_WritesIndependent ==
    [][\A e \in Exchanges :
          ( /\ pc[e].at = "run" /\ alive[e]
            /\ CycleSteps(e)[pc[e].i].op \in {"open", "write", "rename"}
            /\ pc'[e] = At("sleeping") )
          => \A k \in DOMAIN CycleSteps(e) :
                ( /\ CycleSteps(e)[k].op = "write"
                  /\ CycleSteps(e)[k].to # CycleSteps(e)[pc[e].i].to )
                => file'[CycleSteps(e)[k].to] =
                      Complete(ExpectedJson(e, CycleSteps(e)[k].view))]_vars

\* C20: every iteration of the loop ends in Sleeping, whether its cycle ran
\* to the end, raised, or was skipped because the lock was held; the loop
\* goes Acquiring-Lock -> (Running-Cycle) -> Sleeping -> Acquiring-Lock and
\* nowhere else, so an attempt at the lock is always preceded by Sleeping, an
\* iteration makes one attempt, and Sleeping is left only for the next one.
C20_SleepBetweenIterations ==
    [][\A e \in Exchanges :
          /\ (pc[e].at = "acquire" /\ pc'[e] # pc[e])
                => /\ pc'[e] \in {[at |-> "run", i |-> 1], At("sleeping")}
                   /\ iter'[e] = iter[e] + 1
          /\ (pc[e].at = "run" /\ pc'[e].at # "run") => pc'[e] = At("sleeping")
          /\ (pc[e].at = "sleeping" /\ pc'[e] # pc[e]) => pc'[e] = At("acquire")
          /\ (pc'[e].at = "acquire" /\ pc'[e] # pc[e]) => pc[e].at = "sleeping"
          /\ (pc'[e].at = "sleeping" /\ pc[e].at # "sleeping")
                => /\ outcome'[e] \in {"ok", "error", "skipped"}
                   /\ outcome'[e] = "skipped" <=> pc[e].at = "acquire"
          /\ iter'[e] # iter[e] => pc[e].at = "acquire"]_vars

\* a cycle ran to its end, the loop slept and is back at the lock
C20_Witness ==
    \E e \in Exchanges :
        outcome[e] = "ok" /\ pc[e].at = "acquire" /\ iter[e] = 1 /\ alive[e]

\* the artifacts of the table and of its filtered views, with their views
ViewArtifacts(e) ==
    LET steps == CycleSteps(e)
    IN {[path |-> steps[k].to, view |-> steps[k].view] :
           k \in {j \in DOMAIN steps :
                    /\ steps[j].op = "write"
                    /\ steps[j].view # "total_historical_volume"}}

\* the table at hand is the one analysed in the iteration at hand
TableOfThisCycle(e) == df[e] # <<>> /\ df[e][1].Timestamp = iter[e]

\* C22: the steps of a cycle follow one another in the order analysis,
\* publication of the table and of all its filtered views, aggregation of the
\* historical volume, publication of that aggregate: a file holds rows
\* stamped by this cycle only once the cycle's analysis has returned its
\* table; the
\* aggregate of this cycle exists only once the table and every view of this
\* cycle are published in full; and the aggregate's file holds it only once
\* it was computed.
C22_CycleOrder ==
    \A e \in Exchanges :
        /\ \A a \in ViewArtifacts(e) :
              ( /\ iter[e] > 0
                /\ file[a.path].full
                /\ \E i \in DOMAIN file[a.path].json :
                      /\ "Timestamp" \in DOMAIN file[a.path].json[i]
                      /\ file[a.path].json[i].Timestamp = iter[e] )
              => TableOfThisCycle(e)
        /\ (iter[e] > 0 /\ hist[e] = CycleVolume(iter[e])) =>
              /\ TableOfThisCycle(e)
              /\ \A a \in ViewArtifacts(e) :
                    file[a.path] = Complete(ExpectedJson(e, a.view))
        /\ (iter[e] > 0 /\ file[hist_path(e)] = Complete(CycleVolume(iter[e])))
              => hist[e] = CycleVolume(iter[e])

\* the second cycle has published its table and views and has just
\* aggregated the historical volume, which it is about to write
C22_Witness ==
    \E e \in Exchanges :
        /\ Running(e) /\ iter[e] = 2
        /\ Step(e).op = "open" /\ Step(e).path = hist_path(e)
        /\ hist[e] = CycleVolume(2)
        /\ file[main_path_quant(e)] = Complete(ToJson(df[e]))
        /\ file[hist_path(e)] = Complete(CycleVolume(1))

LegacyPaths == {old_path, old_temp_path, old_rotator_path}

\* C28: the files with the legacy names (quantdatav2.json, its temp file and
\* rotatorsymbols.json) change only in a step of the running cycle of bybit;
\* a step of another exchange's loop leaves them as they are.
C28_LegacyOnlyBybit ==
    [][\A p \in LegacyPaths :
          /\ file'[p] # file[p] =>
                /\ pc["bybit"].at = "run"
                /\ pc'["bybit"] # pc["bybit"]
          /\ \A e \in Exchanges \ {"bybit"} :
                pc'[e] # pc[e] => file'[p] = file[p]]_vars

\* a cycle of binance ran to its end and the legacy files are what they were
C28_Witness ==
    /\ outcome["binance"] = "ok" /\ iter["binance"] = 2
    /\ file[main_path_quant("binance")] # EarlierSnapshot
    /\ \A p \in LegacyPaths \cap AllDestPaths : file[p] = EarlierSnapshot

\* C33: the lock is released on every way out of the running cycle, its
\* normal end and an exception alike, in the step that takes the iteration
\* to Sleeping: the loop never holds the lock while it sleeps, and an attempt
\* at the lock is refused only when another process holds it, never because
\* of the loop's own previous iteration.
C33_LockReleasedBeforeSleep ==
    [][\A e \in Exchanges :
          /\ pc'[e].at \in {"sleeping", "acquire"} => lockHolder'[e] # "loop"
          /\ (pc[e].at = "run" /\ pc'[e].at # "run")
                => (lockHolder[e] = "loop" /\ lockHolder'[e] = "none")
          /\ (pc[e].at = "acquire" /\ pc'[e].at = "sleeping")
                => lockHolder[e] = "other"]_vars

\* the second iteration got the lock, its cycle raised, and the loop sleeps
\* with the lock free
C33_Witness ==
    \E e \in Exchanges :
        /\ pc[e].at = "sleeping" /\ alive[e]
        /\ iter[e] = 2 /\ ~contended[e]
        /\ outcome[e] = "error"
        /\ lockHolder[e] = "none"

\* the steps of the cycle that write the artifact at path p
StepsOf(e, p) ==
    LET steps == CycleSteps(e)
    IN {k \in DOMAIN steps : steps[k].to = p}

\* C34: when a statement of the cycle raises, every artifact whose
\* publication had not begun holds what it held when the cycle began, and
\* every artifact whose publication was over holds this cycle's text of its
\* view; when it is the aggregation of the historical volume that raises,
\* the file of the aggregate is as it was and the table and every filtered
\* view hold what this cycle published.
C34_AbortKeepsEarlierAndLater ==
    [][\A e \in Exchanges :
          ( /\ pc[e].at = "run" /\ alive[e]
            /\ pc'[e] = At("sleeping")
            /\ Step(e).op # "exit" )
          => /\ \A p \in DestPaths(e) :
                   LET of_p == StepsOf(e, p)
                   IN /\ (\A k \in of_p : k >= pc[e].i)
                            => file'[p] = fileAtStart[e][p]
                      /\ (\A k \in of_p : k < pc[e].i)
                            => \E k \in of_p :
                                  file'[p] =
                                     Complete(ExpectedJson(e, CycleSteps(e)[k].view))
             /\ Step(e).op = "historical_volume"
                   => /\ file'[hist_path(e)] = fileAtStart[e][hist_path(e)]
                      /\ \A a \in ViewArtifacts(e) :
                            file'[a.path] = Complete(ViewJson(e, a.view))]_vars

\* the aggregation of the second cycle raised: the table of that cycle is
\* published, the aggregate and its file are those of the first cycle
C34_Witness ==
    \E e \in Exchanges :
        /\ pc[e].at = "sleeping" /\ outcome[e] = "error"
        /\ iter[e] = 2 /\ TableOfThisCycle(e)
        /\ file[main_path_quant(e)] = Complete(ToJson(df[e]))
        /\ file[positive_path(e)] = Complete(ViewJson(e, "positive"))
        /\ hist[e] = CycleVolume(1)
        /\ file[hist_path(e)] = Complete(CycleVolume(1))

----------------------------------------------------------------------------
(* Claims about the loop under fair scheduling, checked under SpecLoopFair *)

\* C36: when every call returns or raises and the thread is scheduled
\* fairly, every running cycle comes to its end in Sleeping, every attempt
\* at the lock is followed by Sleeping, and Sleeping is followed by the next
\* attempt: the loop that was started sleeps at the end of each of the
\* iterations the bound counts, the last included.
C36_LoopKeepsGoing ==
    \A e \in Exchanges :
        /\ [](pc[e].at \in {"acquire", "run"} => <>(pc[e].at = "sleeping"))
        /\ []((pc[e].at = "sleeping" /\ iter[e] < MaxIter)
                 => <>(pc[e].at = "acquire"))
        /\ pc[e].at # "idle" => <>LoopOver(e)

\* the last iteration the bound counts followed a cycle that ran to its end
\* and published the aggregate; it raised, and the loop sleeps
C36_Witness ==
    \E e \in Exchanges :
        /\ LoopOver(e) /\ alive[e]
        /\ outcome[e] = "error" /\ "analysis" \in work[e]
        /\ file[hist_path(e)] = Complete(CycleVolume(MaxIter - 1))

----------------------------------------------------------------------------
(* Claims about the two loops of the process, checked under SpecTwoLoops *)

\* C21: of the loops of one exchange, in this process and in others, at most
\* one is in its running cycle; a cycle runs only while its loop holds the
\* pid file of the exchange; and a loop that finds the pid file of its own
\* exchange free can take it, whoever holds the pid file of the other.
C21_SingleInstancePerExchange ==
    \A e \in Exchanges :
        /\ ~(Running(e) /\ otherRunning[e])
        /\ Running(e) => lockHolder[e] = "loop"
        /\ otherRunning[e] => lockHolder[e] = "other"
        /\ (pc[e].at = "acquire" /\ lockHolder[e] = "none")
              => ENABLED (Acquire(e) /\ pc'[e].at = "run")

\* bybit's loop was kept out by the loop of another process, which still
\* runs, while binance's loop is in its cycle
C21_Witness ==
    /\ otherRunning["bybit"] /\ outcome["bybit"] = "skipped" /\ LoopOver("bybit")
    /\ Running("binance") /\ lockHolder["binance"] = "loop"
    /\ "write" \in work["binance"]

\* what belongs to the loop of an exchange
LoopState(e) ==
    <<pc[e], iter[e], lockHolder[e], df[e], hist[e], contended[e], work[e],
      outcome[e], [p \in DestPaths(e) \cup TempPaths(e) |-> file[p]]>>

\* C29: the loops of the two exchanges are independent: wherever the other
\* loop is, stuck in a statement, sleeping after an exception or after a
\* skip, a loop that is not over has a next step it can take; a step of one
\* loop changes nothing of the other; and a loop is kept out of its cycle
\* only when the pid file of its own exchange is held.
C29_LoopsIndependent ==
    /\ [](\A e \in Exchanges : LoopOver(e) \/ ENABLED LoopStep(e))
    /\ [][\A e \in Exchanges :
             /\ (\E o \in Exchanges \ {e} : pc'[o] # pc[o])
                   => LoopState(e)' = LoopState(e)
             /\ (pc[e].at = "acquire" /\ pc'[e] # pc[e])
                   => (pc'[e].at = "run" <=> lockHolder[e] # "other")]_vars

\* bybit's loop is still inside its analysis, which has not returned, and
\* binance's loop has meanwhile run its cycle to the end and sleeps
C29_Witness ==
    /\ Running("bybit") /\ Step("bybit").op = "analyse"
    /\ outcome["binance"] = "ok" /\ LoopOver("binance")
    /\ file[hist_path("binance")] = Complete(CycleVolume(MaxIter))

\* the paths the statements of a cycle of e open, write or rename
PathsWritten(e) ==
    LET steps == CycleSteps(e)
    IN UNION {{steps[k].path, steps[k].to} : k \in DOMAIN steps} \ {""}

\* C35: the two loops of the process never write or rename the same path:
\* a step that changes a file is a statement of one loop's cycle on a path
\* that no statement of the other loop's cycle opens, writes or renames, so
\* what a loop's rename puts at the destination is what that loop wrote.
C35_LoopsWriteDistinctPaths ==
    [][/\ file' # file
             => \E e \in Exchanges :
                   LET changed == {p \in DOMAIN file : file'[p] # file[p]}
                       step == Step(e)
                   IN /\ Running(e) /\ pc'[e] # pc[e]
                      /\ changed \subseteq {step.path, step.to}
                      /\ \A o \in Exchanges \ {e} :
                            changed \cap PathsWritten(o) = {}
       /\ \A e \in Exchanges :
             (pc'[e] # pc[e] /\ Running(e) /\ Step(e).op = "rename"
                             /\ pc'[e].at = "run")
                => file'[Step(e).to] = Complete(ViewJson(e, Step(e).view))]_vars

\* both loops are in their cycles and each has the temp file of its
\* to-trade view written and not yet renamed
C35_Witness ==
    \A e \in Exchanges :
        /\ Running(e) /\ Step(e).op = "rename"
        /\ Step(e).path = temp_path_trade(e)
        /\ file[temp_path_trade(e)].full

----------------------------------------------------------------------------
(* Claims about the funding cache *)

\* C5: of calls made one after the other, one that finds an entry of its
\* symbol younger than 4 hours fetches nothing and returns the cached rate;
\* one that finds no entry, or one 4 hours old or older, fetches exactly once
\* and stores what it fetched.  Checked under SpecCacheSeq.
C5_CacheFreshness ==
    [][\A w \in Workers :
          (call[w].pc # "returned" /\ call'[w].pc = "returned") =>
              LET c == call'[w]
                  found == c.entryAtCall
              IN IF found # <<>> /\ c.now - found[1].fetched < 4
                 THEN /\ c.fetches = 0
                      /\ c.ret = found[1].rate
                      /\ funding_cache' = funding_cache
                 ELSE /\ c.fetches = 1
                      /\ funding_cache'[c.symbol] =
                            <<[fetched |-> c.now, rate |-> c.ret]>>]_vars

\* a third call of a symbol, made exactly 4 hours after its entry, fetched again
C5_Witness ==
    \E w \in Workers :
        /\ call[w].pc = "returned"
        /\ calls = 3
        /\ call[w].fetches = 1
        /\ call[w].entryAtCall # <<>>
        /\ call[w].now - call[w].entryAtCall[1].fetched = 4
        /\ funding_cache[call[w].symbol][1].fetched = call[w].now

\* The claims that follow are checked under SpecCache: the calls of two tasks
\* interleave, and the tasks run in the same scraper or in the scrapers of
\* the two exchange loops.

\* C16: a task that is inside exchange.get_funding_rate holds no cache lock;
\* a cache lock is held only by a task that is in the read-and-check or in
\* the store, and it is the lock of that task's own scraper.
C16_NoLockDuringFetch ==
    \A w \in Workers :
        /\ call[w].pc = "fetch" => \A e \in Exchanges : cache_lock[e] # w
        /\ \A e \in Exchanges :
              cache_lock[e] = w => (call[w].pc \in {"check", "store"} /\ scraperOf[w] = e)

\* while one task fetches, another task of the same scraper holds the lock
C16_Witness ==
    \E w, v \in Workers :
        /\ w # v /\ scraperOf[w] = scraperOf[v]
        /\ call[w].pc = "fetch"
        /\ call[v].pc \in {"check", "store"}
        /\ cache_lock[scraperOf[v]] = v

\* C17: the shared funding cache is protected by a lock: no two tasks, of
\* whichever scraper instance or exchange loop, are at the same time inside a
\* read-and-check or a store of the cache.
C17_CacheMutualExclusion ==
    Cardinality({w \in Workers : call[w].pc \in {"check", "store"}}) <= 1

\* C18: concurrent calls for a symbol whose entry is absent or stale are not
\* deduplicated: each call that finds no fresh entry fetches once and returns
\* the rate it fetched itself; the cache holds at most one entry per symbol,
\* changed by nothing but a store, and every store puts the storing call's
\* own (now, rate) there, so after all calls the entry is the last writer's.
C18_LastWriterWins ==
    [][/\ \A w \in Workers :
             /\ (call'[w].pc = "returned" /\ call'[w].fetches > 0)
                   => (call'[w].fetches = 1 /\ call'[w].ret = call'[w].rate)
             /\ (call[w].pc = "check" /\ call'[w].pc # "check")
                   => \/ call'[w].pc = "fetch"
                      \/ /\ call'[w].pc = "returned"
                         /\ IsCachedFresh(funding_cache, call[w].symbol, call[w].now)
             /\ (call[w].pc = "store" /\ call'[w].pc = "returned")
                   => funding_cache'[call[w].symbol] =
                         <<[fetched |-> call[w].now, rate |-> call[w].rate]>>
       /\ \A s \in CacheSymbols :
             /\ Len(funding_cache'[s]) <= 1
             /\ funding_cache'[s] # funding_cache[s]
                   => \E w \in Workers :
                         /\ call[w].pc = "store" /\ call[w].symbol = s
                         /\ call'[w].pc = "returned"]_vars

\* two calls for the same symbol both found no entry, both fetched, got
\* different rates and returned them; the cache holds one of the two
C18_Witness ==
    \E w, v \in Workers :
        /\ w # v
        /\ call[w].pc = "returned" /\ call[v].pc = "returned"
        /\ call[w].symbol = call[v].symbol
        /\ call[w].entryAtCall = <<>> /\ call[v].entryAtCall = <<>>
        /\ call[w].fetches = 1 /\ call[v].fetches = 1
        /\ call[w].ret # call[v].ret
        /\ funding_cache[call[w].symbol][1].rate = call[w].ret

\* C30: a rate that get_cached_funding returns on the scraper of one exchange
\* was fetched from that exchange: an entry that a task of the other
\* exchange's loop stored for a symbol of the same name is not returned.
C30_RateOfOwnExchange ==
    \A w \in Workers :
        call[w].pc = "returned" =>
            call[w].ret \in {r * 100 : r \in get_funding_rate(scraperOf[w])}

\* C31: when the exchange fetch inside get_cached_funding raises, the step
\* leaves every entry of the funding cache and both cache locks as they
\* were, the call holds no lock, and the call is over without a return
\* value: it never goes on to the store, so the exception is what the
\* calling attempt of analyse_symbol gets.
C31_FetchRaisesLeavesCache ==
    [][\A w \in Workers :
          /\ call'[w].pc = "raised" /\ call[w].pc # "raised"
                => /\ call[w].pc = "fetch"
                   /\ funding_cache' = funding_cache
                   /\ cache_lock' = cache_lock
                   /\ \A e \in Exchanges : cache_lock'[e] # w
                   /\ call'[w].ret = 0
          /\ call[w].pc = "raised"
                => /\ call'[w].pc \in {"raised", "lock1"}
                   /\ \A e \in Exchanges : cache_lock[e] # w
                   /\ call'[w].pc = "raised" /\ funding_cache' # funding_cache
                         => \E v \in Workers \ {w} : call[v].pc = "store"]_vars

\* a call found a stale entry, its fetch raised, and the entry it found is
\* still the entry of the symbol
C31_Witness ==
    \E w \in Workers :
        /\ call[w].pc = "raised"
        /\ call[w].entryAtCall # <<>>
        /\ call[w].now - call[w].entryAtCall[1].fetched >= FUNDING_CACHE_DURATION
        /\ funding_cache[call[w].symbol] = call[w].entryAtCall

\* C32: the fetched_at of a symbol's entry never moves backwards: whatever
\* the interleaving of the calls, no store replaces an entry by one with an
\* earlier fetched_at.
C32_FetchedAtNeverBackwards ==
    [][\A s \in CacheSymbols :
          (funding_cache[s] # <<>> /\ funding_cache'[s] # <<>>)
              => funding_cache'[s][1].fetched >= funding_cache[s][1].fetched]_vars

----------------------------------------------------------------------------
(* Claims about the merge, checked under SpecMerge; A is data_binance, the
   first argument, and B is data_bybit *)

ValueOrZero(frame, key, col) ==
    IF key \in Keys(frame) THEN RowFor(frame, key)[col] ELSE 0

\* C8: for each of the four volume columns and every symbol of the outer
\* join, the merged value is A's value, or 0 when A lacks the symbol, plus
\* B's value, or 0 when B lacks it; every symbol of either table is there
\* exactly once, and no other.
C8_MergedVolumes ==
    mergePc = "done" =>
        /\ \A s \in Keys(data_binance) \cup Keys(data_bybit) :
              /\ Cardinality(RowsOf(combined_data, s)) = 1
              /\ \A i \in RowsOf(combined_data, s) : \A c \in VolumeSet :
                    combined_data[i][c] =
                        <<ValueOrZero(data_binance, s, c) + ValueOrZero(data_bybit, s, c)>>
        /\ \A i \in DOMAIN combined_data :
              combined_data[i].Asset \in Keys(data_binance) \cup Keys(data_bybit)

\* the spec's shape: a symbol in both tables, one only in A and one only in B
C8_Witness ==
    /\ mergePc = "done"
    /\ Keys(data_binance) \cap Keys(data_bybit) # {}
    /\ Keys(data_binance) \ Keys(data_bybit) # {}
    /\ Keys(data_bybit) \ Keys(data_binance) # {}
    /\ Len(combined_data) = 3

\* C9: for every column that is not a volume column, a symbol of both tables
\* has A's value and a symbol of one table only has that table's value,
\* whichever side lacks the symbol.
C9_OtherColumnsPreferA ==
    mergePc = "done" =>
        \A s \in Keys(data_binance) \cup Keys(data_bybit) :
            \A i \in RowsOf(combined_data, s) : \A c \in ValueColumns \ VolumeSet :
                combined_data[i][c] =
                    IF s \in Keys(data_binance)
                    THEN <<RowFor(data_binance, s)[c]>>
                    ELSE <<RowFor(data_bybit, s)[c]>>

----------------------------------------------------------------------------
(* Claims about filter_quote, checked under SpecQuote *)

\* C12: filter_quote returns exactly the symbols of its input that end with
\* one of the quotes, each as often as the input holds it and in the input's
\* order; it adds none and reorders none.  [BTCUSDT, ETHBUSD, SOLUSDT] with
\* [USDT] gives [BTCUSDT, SOLUSDT].
C12_QuoteFilterExact ==
    /\ quotePc = "done" =>
          LET kept == {i \in DOMAIN quoteSymbols :
                          \E k \in DOMAIN quotes :
                              EndsWith(quoteSymbols[i], quotes[k])}
          IN /\ Len(quoteFiltered) = Cardinality(kept)
             /\ \A i \in kept :
                   quoteFiltered[Cardinality({j \in kept : j <= i})] = quoteSymbols[i]
    /\ FilterQuote(<<"BTCUSDT", "ETHBUSD", "SOLUSDT">>, <<"USDT">>)
          = <<"BTCUSDT", "SOLUSDT">>

\* the call of the spec's example
C12_Witness ==
    /\ quotePc = "done"
    /\ quotes = <<"USDT">>
    /\ quoteSymbols = <<"BTCUSDT", "ETHBUSD", "SOLUSDT">>
    /\ quoteFiltered = <<"BTCUSDT", "SOLUSDT">>

----------------------------------------------------------------------------
(* Claims about get_all_historical_volume, checked under SpecHist *)

\* C15: get_all_historical_volume has no retry: the kline fetch of every
\* symbol of the universe is made at most once, and exactly once by the time
\* the call is over; a call that returns has met no failing fetch and returns
\* a map whose keys are exactly the symbols of the universe, each with its
\* bars' volumes in bar order; once a failed fetch has been met the call
\* returns no map, and it ends by raising.
C15_NoRetryAllOrNothing ==
    /\ \A s \in SymbolSet :
          /\ histTask[s].fetches <= 1
          /\ s \notin HistSubmitted => histTask[s].fetches = 0
    /\ histPc \in {"returned", "raised"} =>
          \A s \in HistSubmitted : histTask[s].fetches = 1
    /\ histPc = "returned" =>
          /\ \A s \in HistSubmitted : ~klineFails[s]
          /\ Len(histResult) = 1
          /\ \A s \in SymbolSet :
                histResult[1][s] =
                    IF s \in HistSubmitted THEN <<BarVolumes(s)>> ELSE <<>>
    /\ histPc \in {"unwinding", "raised"} =>
          /\ \E s \in HistSubmitted : klineFails[s]
          /\ histResult = <<>>
    /\ (\E s \in HistSubmitted : klineFails[s]) => histPc # "returned"

\* a call that raised after one fetch of three had failed, every fetch made once
C15_Witness ==
    /\ histPc = "raised"
    /\ Cardinality({s \in HistSubmitted : klineFails[s]}) = 1
    /\ \A s \in SymbolSet : histTask[s].fetches = 1

----------------------------------------------------------------------------
(* Claims about filter_df, checked under SpecFilter *)

Holds(x, operator, value) ==
    IF operator = ">" THEN x > value
    ELSE IF operator = "<" THEN x < value
    ELSE x = value

\* C10: for the operators >, < and ==, filter_df returns exactly the rows
\* whose column is greater than, less than or equal to the value, in the
\* frame's order and whole; the rows of negative and of positive Funding are
\* disjoint and are together the rows whose Funding is not 0.
C10_FilterExact ==
    /\ (filterPc = "done" /\ filterArgs.op \in {">", "<", "=="}) =>
          LET matching == {i \in DOMAIN dataframe0 :
                              Holds(dataframe0[i][filterArgs.col], filterArgs.op,
                                    filterArgs.value)}
          IN /\ ~filtered.none
             /\ Len(filtered.rows) = Cardinality(matching)
             /\ \A i \in matching :
                   filtered.rows[Cardinality({j \in matching : j <= i})] = dataframe0[i]
    /\ LET negative == FilterDf(dataframe0, "Funding", "<", 0).rows
           positive == FilterDf(dataframe0, "Funding", ">", 0).rows
           rowsOf(f) == {f[i] : i \in DOMAIN f}
       IN /\ rowsOf(negative) \cap rowsOf(positive) = {}
          /\ rowsOf(negative) \cup rowsOf(positive) =
                {dataframe0[i] : i \in {j \in DOMAIN dataframe0 : dataframe0[j].Funding # 0}}

\* C14: filter_df called with an operator other than >, < and ==, or with a
\* column the frame does not have, does not raise and gives its caller an
\* empty result: a frame without rows.
C14_UnsupportedGivesEmpty ==
    ( /\ filterPc \in {"done", "raised"}
      /\ \/ filterArgs.op \notin {">", "<", "=="}
         \/ filterArgs.col \notin FrameColumns )
    => /\ filterPc = "done"
       /\ ~filtered.none
       /\ filtered.rows = <<>>

\* a filter that kept some rows and left out others, one of them at the value
C10_Witness ==
    /\ filterPc = "done"
    /\ filterArgs = [col |-> "Funding", op |-> ">", value |-> 0]
    /\ Len(filtered.rows) = 1
    /\ \E i \in DOMAIN dataframe0 : dataframe0[i].Funding = 0
    /\ \E i \in DOMAIN dataframe0 : dataframe0[i].Funding < 0

----------------------------------------------------------------------------
(* Claims about filter_volume, checked under SpecVol *)

\* the item at position i of the volume map is among the first n of the
\* ranking by volume descending, ties in the order of the map
RankedWithin(i, n) ==
    Cardinality({j \in DOMAIN volumes :
                    \/ volumes[j].volume > volumes[i].volume
                    \/ volumes[j].volume = volumes[i].volume /\ j < i}) < n

TopKeys(n) == {volumes[i].symbol : i \in {j \in DOMAIN volumes : RankedWithin(j, n)}}

\* C26: filter_volume(symbols, volumes, N) returns exactly the symbols of its
\* input, in input order, that are among the first N keys of the volume map
\* ranked by volume descending with ties in the map's order; so it returns at
\* most N symbols, and fewer when a key of the first N is not in the input.
C26_TopVolumeFilter ==
    volPc = "done" =>
        /\ volFiltered = SelectSeq(volSymbols, LAMBDA s : s \in TopKeys(volLimit))
        /\ Len(volFiltered) <= volLimit
        /\ Len(volFiltered) =
              Cardinality(TopKeys(volLimit) \cap {volSymbols[i] : i \in DOMAIN volSymbols})

\* N = 2 of three volumes: the second and third of the ranking are equal and
\* the map's order, which is not the alphabetical one, decides for BBBUSDT;
\* the first of the ranking is not in the input, so one symbol is returned
C26_Witness ==
    /\ volPc = "done" /\ volLimit = 2
    /\ volumes = << [symbol |-> "BBBUSDT", volume |-> 10],
                    [symbol |-> "CCCBUSD", volume |-> 20],
                    [symbol |-> "AAAUSDT", volume |-> 10] >>
    /\ volSymbols = <<"AAAUSDT", "DDDUSDT", "BBBUSDT">>
    /\ volFiltered = <<"BBBUSDT">>

----------------------------------------------------------------------------
(* Claims about get_mfi, checked under SpecMfi *)

\* the bars of the last `lookback` bars that satisfy a condition
DecisionBars ==
    {i \in DOMAIN mfiBars :
        /\ i > Len(mfiBars) - mfiLookback
        /\ BuyCondition(mfiBars[i]) \/ SellCondition(mfiBars[i])}

MostRecent(S) == CHOOSE i \in S : \A j \in S : j <= i

----------------------------------------------------------------------------
(* Claims about the executors, checked under SpecFan *)

\* C25: never are more than max_workers tasks of analyse_all_symbols
\* executing at once (20 by default), nor more than 20 fetches of
\* get_all_historical_volume; of the tasks submitted, one per symbol, none is
\* lost or made twice, and every one is eventually taken by a worker and
\* executed to its end.
C25_BoundedConcurrency ==
    /\ [](fanCall # "" =>
            /\ fanRunning <= fanWorkers
            /\ fanCall = "get_all_historical_volume" => fanRunning <= 20
            /\ fanQueued + fanRunning + fanFinished = fanSubmitted)
    /\ <>(fanQueued = 0 /\ fanFinished = fanSubmitted)

\* twenty fetches of the historical volume are executing and the twenty-first
\* symbol waits for a worker
C25_Witness ==
    /\ fanCall = "get_all_historical_volume"
    /\ fanRunning = 20 /\ fanQueued > 0
    /\ fanSubmitted > 20

====
